---- MODULE Spec2Model ----
(***************************************************************************)
(* A model of blueshed/simple: the server relay of src/server-core.ts      *)
(* (subscription registry, change fan-out, cursor/stream page delivery),   *)
(* the client merge engine of src/session.ts and the reactive runtime of   *)
(* src/lib/signals.ts, and the connection of the client session of         *)
(* src/session.ts (reconnect loop, send queue, pending calls).  Each part  *)
(* has its own specification over the shared variables: SpecServer,        *)
(* SpecRequests, SpecMerge, SpecSignals, SpecSession, SpecDocs (the        *)
(* session with the documents it holds open) and SpecRace (a document      *)
(* opened while changes to it are committed).                              *)
(***************************************************************************)
EXTENDS Integers, Sequences, FiniteSets, Bags, TLC

VARIABLES
  \* ---- server (src/server-core.ts) ----
  conn,        \* connection -> "new" | "open" | "gone" | "closed" (socket lifecycle)
  clients,     \* the clients array: sequence of connections, in push order
  docs,        \* connection -> set of open document keys (ws.data.docs)
  tasks,       \* handler invocations suspended at an await (set of records)
  out,         \* the ws.send calls of the last step, in order
  change,      \* the targets of the change event the last step dispatched

  \* ---- client merge engine (src/session.ts) ----
  mOpen,       \* whether the document's key is in the client's docs map
  mTree,       \* the value of the document's signal (entry.signal)
  mCursor,     \* the value of entry.cursor
  mHasMore,    \* the value of entry.hasMore
  mCount,      \* the number of messages handled since the document was opened
  mLast,       \* the last message handled (without its data) and what it did

  \* ---- reactive runtime (src/lib/signals.ts) ----
  sVal,            \* signal -> its value
  sListeners,      \* signal -> its listeners, in insertion order
  currentListener, \* the effect whose fn is running, or NoListener
  currentDeps,     \* the frame whose nextDeps set is current, or NoDeps
  batchDepth,
  pendingEffects,  \* in insertion order
  effectDepth,
  flushing,
  effs,            \* effect -> its state, body and deps set
  stack,           \* the calls in progress, outermost first
  thrown,          \* an error is on its way up the stack
  nOps,            \* calls made from outside so far
  gh,              \* what happened during the last call from outside

  \* ---- client connection (src/session.ts) ----
  readyState,  \* ws.readyState: "connecting" | "open" | "closed"
  status,      \* the value of the status signal
  profile,     \* whether the profile signal holds a profile
  token,       \* whether sessionStorage holds the token
  delay,       \* the reconnect delay, in ms
  timer,       \* the delay of the pending setTimeout(open, delay), 0 for none
  lastDelay,   \* history: the delay of the last timeout since the last open, 0 for none
  queue,       \* the send queue
  wire,        \* history: the messages handed to ws.send, in order
  pendingCalls, \* the keys of the pending table
  lastId,      \* the counter id of request ids
  nSent,       \* history: the number of calls of send
  settled,     \* history: request id -> how many times its promise was settled
  closeCause,  \* history: why the socket closed last, "none" before any close
  docKeys,     \* the keys of the client's docs map
  base,        \* history: how many messages were in wire when the socket opened

  \* ---- a document from the database to the client ----
  store,       \* the number of changes committed to the document
  feed,        \* the notifications of channel "change" not yet handled by the listener
  readOf,      \* open handler -> what its backing call read, NotRead before it ran
  link         \* the messages sent to the client that it has not handled yet

serverVars == <<conn, clients, docs, tasks, out, change>>
mergeVars == <<mOpen, mTree, mCursor, mHasMore, mCount, mLast>>

signalVars == <<sVal, sListeners, currentListener, currentDeps, batchDepth,
                pendingEffects, effectDepth, flushing, effs, stack, thrown, nOps, gh>>

sessionVars == <<readyState, status, profile, token, delay, timer, lastDelay,
                 queue, wire, pendingCalls, lastId, nSent, settled, closeCause,
                 docKeys, base>>

raceVars == <<store, feed, readOf, link>>

vars == <<serverVars, mergeVars, signalVars, sessionVars, raceVars>>

\* ---------------------------------------------------------------- helpers

Range(s) == {s[i] : i \in 1..Len(s)}

\* ================================================================ VALUES
\* JSON values as the client holds them: a tag and a content.  An object is
\* the sequence of its properties <<key, value>> in insertion order.

Null == [t |-> "null", v |-> 0]
Undef == [t |-> "undef", v |-> 0]
Num(n) == [t |-> "num", v |-> n]
Bool(b) == [t |-> "bool", v |-> b]
Str(x) == [t |-> "str", v |-> x]
Arr(items) == [t |-> "arr", v |-> items]
Obj(props) == [t |-> "obj", v |-> props]

IsArray(x) == x.t = "arr"
\* typeof x === "object" for a non-null x.
IsObjectType(x) == x.t \in {"arr", "obj"}

Truthy(x) ==
  CASE x.t \in {"null", "undef"} -> FALSE
    [] x.t = "num" -> x.v # 0
    [] x.t = "bool" -> x.v
    [] x.t = "str" -> x.v # ""
    [] OTHER -> TRUE

\* Object.entries(x): an array's properties are its indexes "0", "1", ...
Entries(x) ==
  CASE x.t = "obj" -> x.v
    [] x.t = "arr" -> [i \in 1..Len(x.v) |-> <<ToString(i - 1), x.v[i]>>]
    [] OTHER -> <<>>

\* x[k] and x?.[k] for a property name k: undefined when x has no such
\* property (the code reads properties of values that are not null or
\* undefined, or reads them with ?.).
Prop(x, k) ==
  LET e == Entries(x)
  IN IF \E i \in 1..Len(e) : e[i][1] = k
       THEN e[CHOOSE i \in 1..Len(e) : e[i][1] = k][2]
       ELSE Undef

\* Object.keys(x)[0], as the property name it is used as.
FirstKey(x) == IF Entries(x) = <<>> THEN "undefined" ELSE Entries(x)[1][1]

\* Property list props with k set to val: in place when present, else last.
PutProp(props, k, val) ==
  IF \E i \in 1..Len(props) : props[i][1] = k
    THEN [i \in 1..Len(props) |-> IF props[i][1] = k THEN <<k, val>> ELSE props[i]]
    ELSE Append(props, <<k, val>>)

RECURSIVE PutAll(_, _)
PutAll(props, more) ==
  IF more = <<>> THEN props
  ELSE PutAll(PutProp(props, Head(more)[1], Head(more)[2]), Tail(more))

\* { ...a, ...b }
\* A spread in which the properties of the first operand win.
SpreadUnder(a, b) == Obj(PutAll(Entries(b), Entries(a)))

\* { ...a, ...b }
Spread(a, b) == Obj(PutAll(Entries(a), Entries(b)))

\* { ...x }
Copy(x) == Obj(Entries(x))

\* The value reached from x along a path of property names.
RECURSIVE GetIn(_, _)
GetIn(x, path) ==
  IF path = <<>> THEN x ELSE GetIn(Prop(x, Head(path)), Tail(path))

\* x after the value at the end of path was replaced by val, in place: the
\* objects and arrays along the path keep their kind and property order.
RECURSIVE SetIn(_, _, _)
SetIn(x, path, val) ==
  IF path = <<>> THEN val
  ELSE LET h == Head(path)
           e == PutProp(Entries(x), h, SetIn(Prop(x, h), Tail(path), val))
       IN IF x.t = "arr" THEN Arr([i \in 1..Len(e) |-> e[i][2]]) ELSE Obj(e)

\* ================================================================ MERGE
\* The merge engine of the client session: one open document, the messages
\* the socket delivers for it, and the tree its signal holds.

MaxId == 3      \* item ids are 1..MaxId
MaxVal == 2     \* item and field contents are 1..MaxVal
MaxItems == 2   \* longest array of a snapshot or of a payload
MaxMsgs == 3    \* messages handled for one open document

ItemId(item) == Prop(item, "id")

\* arr.findIndex(item => item.id === id), 1-based, 0 for -1.
FindIndex(arr, id) ==
  LET hits == {i \in 1..Len(arr.v) : ItemId(arr.v[i]) = id}
  IN IF hits = {} THEN 0 ELSE CHOOSE i \in hits : \A j \in hits : i <= j

\* A splice that moves an updated item to the tail.
SpliceToTail(arr, data, op) ==
  LET rest == SelectSeq(arr.v, LAMBDA item : ItemId(item) # ItemId(data))
  IN IF op = "remove" THEN Arr(rest) ELSE Arr(Append(rest, data))

Splice(arr, data, op) ==
  LET idx == FindIndex(arr, ItemId(data))
  IN IF op = "remove"
       THEN IF idx # 0
              THEN Arr([i \in 1..(Len(arr.v) - 1) |->
                          IF i < idx THEN arr.v[i] ELSE arr.v[i + 1]])
              ELSE arr
       ELSE IF idx # 0
              THEN Arr([arr.v EXCEPT ![idx] = data])
              ELSE Arr(Append(arr.v, data))

\* existing = new Set(arr.map(item => item.id));
\* for (const item of items) if (!existing.has(item.id)) arr.push(item)
\* The set of existing ids is computed once, before the pushes.
PushNew(arr, items) ==
  LET existing == {ItemId(arr.v[i]) : i \in 1..Len(arr.v)}
      IsNew(item) == ItemId(item) \notin existing
  IN Arr(arr.v \o SelectSeq(items.v, IsNew))

\* for (const [k, v] of Object.entries(data))
\*   if (Array.isArray(v) && Array.isArray(target[k])) push the new items of v
RECURSIVE PushNewEach(_, _)
PushNewEach(target, entries) ==
  IF entries = <<>> THEN target
  ELSE LET k == Head(entries)[1]
           v == Head(entries)[2]
           pushed == IF IsArray(v) /\ IsArray(Prop(target, k))
                       THEN SetIn(target, <<k>>, PushNew(Prop(target, k), v))
                       ELSE target
       IN PushNewEach(pushed, Tail(entries))

\* What a merge did: the tree of the signal afterwards, whether the signal
\* was set, and whether the merge ended in a TypeError.
Done(tree) == [tree |-> tree, notified |-> TRUE, threw |-> FALSE]
\* An early return that sets the signal.
SkipAfterSet(tree) == [tree |-> tree, notified |-> TRUE, threw |-> FALSE]
Skip(tree) == [tree |-> tree, notified |-> FALSE, threw |-> FALSE]
Throw(tree) == [tree |-> tree, notified |-> FALSE, threw |-> TRUE]

MergeAppend(current, data) ==
  IF ~Truthy(current) THEN Done(data)
  ELSE LET rootKey == FirstKey(current)
           root == Prop(current, rootKey)
       IN IF IsArray(data)
            THEN IF IsArray(root)
                   THEN Done(Copy(SetIn(current, <<rootKey>>, PushNew(root, data))))
                   ELSE Skip(current)
            ELSE IF IsObjectType(data)
                   THEN IF Truthy(root) /\ IsObjectType(root)
                          THEN Done(Copy(SetIn(current, <<rootKey>>,
                                               PushNewEach(root, Entries(data)))))
                          ELSE Done(Copy(PushNewEach(current, Entries(data))))
                   ELSE Skip(current)

\* A walk that descends into the first element of the array.
FindFirst(arr, id) == IF arr.v = <<>> THEN 0 ELSE 1

\* arr.find(item => item.id === ids[i]), as the index of the element.
FindParent(arr, id) == FindIndex(arr, id)

\* The walk along the segments of a collection path from the node at
\* nodePath: the path of the target array when every lookup succeeds.
RECURSIVE Walk(_, _, _, _, _)
Walk(current, nodePath, segments, ids, i) ==
  LET arr == Prop(GetIn(current, nodePath), segments[i])
      id == IF i <= Len(ids) THEN Num(ids[i]) ELSE Undef
  IN IF ~Truthy(arr) THEN [found |-> FALSE, threw |-> FALSE, path |-> <<>>]
     ELSE IF i = Len(segments)
            THEN [found |-> TRUE, threw |-> FALSE, path |-> Append(nodePath, segments[i])]
     ELSE IF ~IsArray(arr) THEN [found |-> FALSE, threw |-> TRUE, path |-> <<>>]
     ELSE IF FindParent(arr, id) = 0
            THEN [found |-> FALSE, threw |-> FALSE, path |-> <<>>]
     ELSE Walk(current,
               nodePath \o <<segments[i], ToString(FindParent(arr, id) - 1)>>,
               segments, ids, i + 1)

\* A removal that leaves no tree.
RemovedAsNull == Null

\* { _removed: true }
RemovedSentinel == Obj(<< <<"_removed", Bool(TRUE)>> >>)

MergeChange(current, msg) ==
  IF ~Truthy(current) THEN Skip(current)
  ELSE LET rootKey == FirstKey(current)
           root == Prop(current, rootKey)
       IN IF msg.collection = <<>>
            THEN IF msg.op = "remove"
                   THEN Done(RemovedSentinel)
                   ELSE Done(Obj(<< <<rootKey, Spread(root, msg.data)>> >>))
            ELSE LET segments == msg.collection
                     start == IF segments[1] = rootKey THEN <<>> ELSE <<rootKey>>
                     w == Walk(current, start, segments, msg.parent_ids, 1)
                 IN IF w.threw THEN Throw(current)
                    ELSE IF ~w.found THEN Skip(current)
                    ELSE IF ~IsArray(GetIn(current, w.path)) THEN Throw(current)
                    ELSE Done(Copy(SetIn(current, w.path,
                                         Splice(GetIn(current, w.path), msg.data, msg.op))))

\* merge(msg) for a message whose document is open and whose data is truthy.
Merge(current, msg) ==
  CASE msg.op = "set" -> Done(msg.data)
    [] msg.op = "append" -> MergeAppend(current, msg.data)
    [] OTHER -> MergeChange(current, msg)

\* ---- the messages and snapshots of the model

Item(i, v) == Obj(<< <<"id", Num(i)>>, <<"v", Num(v)>> >>)
Parent(i, subs) == Obj(<< <<"id", Num(i)>>, <<"v", Num(1)>>, <<"subs", Arr(subs)>> >>)

Items == {Item(i, v) : i \in 1..MaxId, v \in 1..MaxVal}
ItemLists == UNION {[1..n -> Items] : n \in 0..MaxItems}
UniqueIds(l) == \A i, j \in 1..Len(l) : ItemId(l[i]) = ItemId(l[j]) => i = j
FirstLists == {l \in ItemLists : \A i \in 1..Len(l) : Prop(l[i], "v") = Num(1)}
UniqueLists == {l \in FirstLists : UniqueIds(l)}

CollectionDoc(l) == Obj(<< <<"posts", Arr(l)>> >>)
EntityDoc(l) ==
  Obj(<< <<"thing", Obj(<< <<"id", Num(1)>>, <<"name", Num(1)>>, <<"items", Arr(l)>> >>)>> >>)
NestedDoc(l) == EntityDoc(<<Parent(1, l), Parent(2, <<>>)>>)

\* Snapshots of documents: every array has unique ids.
Snapshots ==
  {CollectionDoc(l) : l \in UniqueLists} \cup {EntityDoc(l) : l \in UniqueLists}
    \cup {NestedDoc(l) : l \in UniqueLists}

NoPage == [paged |-> FALSE, cursor |-> Null, hasMore |-> FALSE]
LastPage == [paged |-> TRUE, cursor |-> Null, hasMore |-> FALSE]
MorePages == [paged |-> TRUE, cursor |-> Str("c"), hasMore |-> TRUE]

Event(op, collection, parent_ids, data, page) ==
  [op |-> op, collection |-> collection, parent_ids |-> parent_ids, data |-> data,
   paged |-> page.paged, cursor |-> page.cursor, hasMore |-> page.hasMore]

AppendPayloads ==
  UNION {{Arr(l), CollectionDoc(l), Obj(<< <<"items", Arr(l)>> >>)} : l \in FirstLists}

ChangeTargets ==
  {<< <<>>, <<>> >>, << <<"posts">>, <<>> >>, << <<"items">>, <<>> >>,
   << <<"items", "subs">>, <<1>> >>, << <<"items", "subs">>, <<3>> >>,
   << <<"items", "subs">>, <<>> >>, << <<"thing", "items">>, <<>> >>}

ChangePayloads ==
  {Item(i, MaxVal) : i \in 1..MaxId} \cup {Obj(<< <<"name", Num(MaxVal)>> >>), Null}

\* The messages of type "notify": snapshots come with or without page
\* information, stream pages with it, changes without.  The snapshot of a
\* document function that returned NULL is null.
Events ==
  {Event("set", <<>>, <<>>, d, p) : d \in Snapshots, p \in {NoPage, MorePages}}
    \cup {Event("set", <<>>, <<>>, Null, NoPage)}
    \cup {Event("append", <<>>, <<>>, d, p) : d \in AppendPayloads, p \in {LastPage, MorePages}}
    \cup {Event(op, tg[1], tg[2], d, NoPage) :
            op \in {"upsert", "remove"}, tg \in ChangeTargets, d \in ChangePayloads}

\* The record of the last message handled.  rootKey is a history field: the
\* root key of the tree that a merged message found.
Handled(kind, msg, notified, threw) ==
  [kind |-> kind, op |-> msg.op, collection |-> msg.collection,
   parent_ids |-> msg.parent_ids, notified |-> notified, threw |-> threw,
   rootKey |-> "none"]

NoMerge(kind) == Handled(kind, Event("none", <<>>, <<>>, Null, NoPage), FALSE, FALSE)

\* ---- the operations of the session on the document

\* connect(): docs = new Map()
MergeIdle ==
  /\ mOpen = FALSE
  /\ mTree = Null
  /\ mCursor = Null
  /\ mHasMore = FALSE
  /\ mCount = 0
  /\ mLast = NoMerge("none")

\* openDoc(fn, id, null): a new entry with new signals replaces any earlier one.
OpenDoc ==
  /\ mOpen' = TRUE
  /\ mTree' = Null
  /\ mCursor' = Null
  /\ mHasMore' = FALSE
  /\ mCount' = 0
  /\ mLast' = NoMerge("open")
  /\ UNCHANGED <<serverVars, signalVars, sessionVars, raceVars>>

\* closeDoc(fn, id)
CloseDoc ==
  /\ mOpen
  /\ mOpen' = FALSE
  /\ mLast' = NoMerge("close")
  /\ UNCHANGED <<mTree, mCursor, mHasMore, mCount, serverVars, signalVars, sessionVars,
                 raceVars>>

\* ws.onmessage for a message of type "notify": merge(msg)
OnNotify(msg) ==
  LET r == Merge(mTree, msg)
  IN /\ mCount < MaxMsgs
     /\ mCount' = mCount + 1
     /\ IF ~mOpen \/ ~Truthy(msg.data)
          THEN /\ mLast' = Handled("ignored", msg, FALSE, FALSE)
               /\ UNCHANGED <<mOpen, mTree, mCursor, mHasMore, serverVars, signalVars, sessionVars,
                 raceVars>>
          ELSE /\ mCursor' = IF msg.paged THEN msg.cursor ELSE mCursor
               /\ mHasMore' = IF msg.paged THEN msg.hasMore ELSE mHasMore
               /\ mTree' = r.tree
               /\ mLast' = [Handled("notify", msg, r.notified, r.threw)
                              EXCEPT !.rootKey = FirstKey(mTree)]
               /\ UNCHANGED <<mOpen, serverVars, signalVars, sessionVars, raceVars>>

\* msg.error of the error pushes.
ErrorTexts == {"denied", "missing"}

\* ws.onmessage for a message of type "error"
OnError(text) ==
  /\ mCount < MaxMsgs
  /\ mCount' = mCount + 1
  /\ mTree' = IF mOpen THEN Obj(<< <<"_error", Str(text)>> >>) ELSE mTree
  /\ mLast' = [NoMerge("error") EXCEPT !.notified = mOpen]
  /\ UNCHANGED <<mOpen, mCursor, mHasMore, serverVars, signalVars, sessionVars, raceVars>>

\* ================================================================ SIGNALS
\* The reactive runtime, one step at a time: the calls in progress are the
\* frames of a stack, an exception unwinds it through the finally blocks.

NEffs == 2                \* effects created in a run
MaxOps == 4               \* calls made into the runtime from outside in a run
MAX_EFFECT_DEPTH == 100

\* "d" is the signal that computed() creates; the others are made by signal().
Sigs == {"a", "b", "c", "d"}
Written == Sigs \ {"d"}
Bits == {0, 1}            \* the values signals hold
Effs == 1..NEffs
NoListener == 0           \* currentListener = null
NoDeps == 0               \* currentDeps = null
Always == 2

\* ---- the bodies of effects and of batches: sequences of instructions

Instr(op, sig, e, when, how, body) ==
  [op |-> op, sig |-> sig, e |-> e, when |-> when, how |-> how, body |-> body]

\* reg = s.get()
Get(s) == Instr("get", s, 0, Always, "", <<>>)
\* reg = s.peek()
Peek(s) == Instr("peek", s, 0, Always, "", <<>>)
\* if (reg === when) s.get()
GetIf(s, when) == Instr("getif", s, 0, when, "", <<>>)
\* s.set(...): "not" writes 1 - s.peek(), "reg" the last value read
SetTo(s, how) == Instr("set", s, 0, Always, how, <<>>)
\* if (reg === when) s.set(...)
SetIf(s, when, how) == Instr("set", s, 0, when, how, <<>>)
\* batch(() => { body })
BatchOf(body) == Instr("batch", "", 0, Always, "", body)
\* dispose(), the function effect() returned for effect e
DisposeOf(e) == Instr("dispose", "", e, Always, "", <<>>)
\* effect(() => { body })
EffectOf(e, body) == Instr("effect", "", e, Always, "", body)
\* throw new Error(...)
ThrowError == Instr("throw", "", 0, Always, "", <<>>)
\* if (reg === when) throw new Error(...)
ThrowIf(when) == Instr("throw", "", 0, when, "", <<>>)

ReadAB == <<Get("a"), Get("b")>>
Cond == <<Get("c"), GetIf("a", 1), GetIf("b", 0)>>
CopyAB == <<Get("a"), SetTo("b", "reg")>>
Toggle == <<Get("a"), SetTo("a", "not")>>
BatchToggle == <<BatchOf(Toggle)>>
Settle == <<Get("c"), GetIf("a", 1), SetIf("c", 1, "zero")>>
PeekCopy == <<Get("b"), Peek("a"), SetTo("c", "reg")>>
\* The effect inside d = computed(() => a.get()): value = fn(); s.set(value)
Computed == <<Get("a"), SetTo("d", "reg")>>
ReadD == <<Get("d"), SetTo("c", "reg")>>
Guard == <<Get("a"), ThrowIf(1)>>

Bodies ==
  {ReadAB, Cond, CopyAB, Toggle, BatchToggle, Settle, PeekCopy, Computed, ReadD, Guard}

BatchBodies ==
  {<<SetTo("a", "not"), SetTo("b", "not")>>, <<SetTo("c", "not")>>,
   <<SetTo("a", "not"), DisposeOf(1)>>, <<SetTo("a", "not"), ThrowError>>}

NewValue(instr, reg) ==
  CASE instr.how = "not" -> 1 - sVal[instr.sig]
    [] instr.how = "reg" -> reg
    [] instr.how = "zero" -> 0
    [] OTHER -> 1

\* ---- frames

Frame(k, e, sig, prog, pc, reg, prevL, prevD, nextDeps, phase, list, i, rethrow) ==
  [k |-> k, e |-> e, sig |-> sig, prog |-> prog, pc |-> pc, reg |-> reg,
   prevListener |-> prevL, prevDeps |-> prevD, nextDeps |-> nextDeps,
   phase |-> phase, list |-> list, i |-> i, rethrow |-> rethrow]

\* A call from outside the runtime that runs prog.
TopFrame(prog) == Frame("top", 0, "", prog, 1, 0, 0, 0, {}, "body", <<>>, 0, FALSE)
\* execute() of effect e, inside fn.
ExecFrame(e, body, prevL, prevD) ==
  Frame("exec", e, "", body, 1, 0, prevL, prevD, {}, "body", <<>>, 0, FALSE)
\* notify() of signal s in its loop over the listeners, i of them visited.
\* (History: list is the listeners the loop has called.)
NotifyFrame(s) == Frame("notify", 0, s, <<>>, 1, 0, 0, 0, {}, "body", <<>>, 0, FALSE)
\* batch(fn), inside fn (phase "body") or in the drain loop (phase "drain").
BatchFrame(body) == Frame("batch", 0, "", body, 1, 0, 0, 0, {}, "body", <<>>, 0, FALSE)

Top == stack[Len(stack)]
Pop == SubSeq(stack, 1, Len(stack) - 1)
Running == stack # <<>> /\ ~thrown
InCode == Running /\ Top.phase = "body" /\ Top.k \in {"top", "exec", "batch"}
AtInstr(op) == InCode /\ Top.pc <= Len(Top.prog) /\ Top.prog[Top.pc].op = op
AtEnd == InCode /\ Top.pc > Len(Top.prog)
Advance(st) == [st EXCEPT ![Len(st)].pc = @ + 1]

\* ---- sets in insertion order

AddLast(seq, x) == IF x \in Range(seq) THEN seq ELSE Append(seq, x)
Without(seq, x) == SelectSeq(seq, LAMBDA y : y # x)
Position(seq, x) == CHOOSE i \in 1..Len(seq) : seq[i] = x

\* pendingEffects after: for (const listener of listeners) pendingEffects.add(listener)
RECURSIVE AddPendingNoDedup(_, _)
AddPendingNoDedup(pending, ls) ==
  IF ls = <<>> THEN pending ELSE AddPendingNoDedup(Append(pending, Head(ls)), Tail(ls))

RECURSIVE AddPending(_, _)
AddPending(pending, ls) ==
  IF ls = <<>> THEN pending ELSE AddPending(AddLast(pending, Head(ls)), Tail(ls))

\* dep.unsubscribe(execute) for every dep in ds: the listeners, and the
\* stack, where a loop over a live set that visited e has one entry less
\* behind it.
Unsubscribed(ls, e, ds) == [s \in Sigs |-> IF s \in ds THEN Without(ls[s], e) ELSE ls[s]]
UnsubscribedStack(st, ls, e, ds) ==
  [n \in 1..Len(st) |->
     IF /\ st[n].k = "notify" /\ st[n].sig \in ds /\ e \in Range(ls[st[n].sig])
        /\ Position(ls[st[n].sig], e) <= st[n].i
       THEN [st[n] EXCEPT !.i = @ - 1]
       ELSE st[n]]

Subscriptions(e) == {s \in Sigs : e \in Range(sListeners[s])}

\* ---- the record gh of one call from outside: runs, writes, error

CountUp(n) == IF n < 2 THEN n + 1 ELSE 2
InEffect == \E n \in 1..Len(stack) : stack[n].k = "exec"
InOuterBatch == Len(stack) = 2 /\ stack[1].k = "top" /\ Top.k = "batch"

NoCall(kind) ==
  [op |-> kind, ran |-> [e \in Effs |-> 0], touched |-> [e \in Effs |-> 0],
   effectWrote |-> FALSE, error |-> FALSE]

\* ---- module state at load

\* The closure of effect(fn): deps, and cleanup, which every run of fn that
\* returns sets to a new callback.  (History: cleaned counts the calls of
\* the callback that cleanup holds, aborted tells that a run threw.)
NewEffect(state, body) ==
  [state |-> state, body |-> body, deps |-> {}, aborted |-> FALSE,
   cleanup |-> FALSE, cleaned |-> 0]

\* if (cleanup) cleanup()
CleanedUp(ef) == IF ef.cleanup THEN [ef EXCEPT !.cleaned = CountUp(@)] ELSE ef

SignalsIdle ==
  /\ sVal = [s \in Sigs |-> 0]
  /\ sListeners = [s \in Sigs |-> <<>>]
  /\ currentListener = NoListener
  /\ currentDeps = NoDeps
  /\ batchDepth = 0
  /\ pendingEffects = <<>>
  /\ effectDepth = 0
  /\ flushing = FALSE
  /\ effs = [e \in Effs |-> NewEffect("none", <<>>)]
  /\ stack = <<>>
  /\ thrown = FALSE
  /\ nOps = 0
  /\ gh = NoCall("none")

\* ---- calls from outside the runtime

TopCall(kind, prog) ==
  /\ stack = <<>>
  /\ nOps < MaxOps
  /\ nOps' = nOps + 1
  /\ stack' = <<TopFrame(prog)>>
  /\ gh' = NoCall(kind)
  /\ UNCHANGED <<sVal, sListeners, currentListener, currentDeps, batchDepth,
                 pendingEffects, effectDepth, flushing, effs, thrown>>
  /\ UNCHANGED <<serverVars, mergeVars, sessionVars, raceVars>>

CreateEffect(body) ==
  /\ \E e \in Effs : effs[e].state = "none"
  /\ LET e == CHOOSE x \in Effs : effs[x].state = "none" /\ \A y \in Effs : effs[y].state = "none" => x <= y
     IN TopCall("effect", <<EffectOf(e, body)>>)

Write(s, v) == TopCall("write", <<SetTo(s, IF v = 0 THEN "zero" ELSE "one")>>)

Batch(body) ==
  /\ \A n \in 1..Len(body) : body[n].op = "dispose" => effs[body[n].e].state = "live"
  /\ TopCall("batch", <<BatchOf(body)>>)

Dispose(e) ==
  /\ effs[e].state = "live"
  /\ TopCall("dispose", <<DisposeOf(e)>>)

\* ---- execute(): the run of an effect

\* execute() up to the call of fn, on the stack st.
RunEffect(e, st) ==
  /\ effs' = [effs EXCEPT ![e] = CleanedUp(@)]
  /\ stack' = Append(st, ExecFrame(e, effs[e].body, currentListener, currentDeps))
  /\ currentListener' = e
  /\ currentDeps' = Len(st) + 1
  /\ gh' = [gh EXCEPT !.ran[e] = CountUp(@)]

\* effect(fn): the first execute()
DoEffect ==
  /\ AtInstr("effect")
  /\ LET ins == Top.prog[Top.pc]
     IN /\ effs' = [effs EXCEPT ![ins.e] = NewEffect("live", ins.body)]
        /\ stack' = Append(Advance(stack),
                           ExecFrame(ins.e, ins.body, currentListener, currentDeps))
        /\ currentListener' = ins.e
        /\ currentDeps' = Len(stack) + 1
        /\ gh' = [gh EXCEPT !.ran[ins.e] = CountUp(@)]
  /\ UNCHANGED <<sVal, sListeners, batchDepth, pendingEffects, effectDepth, flushing,
                 thrown, nOps>>
  /\ UNCHANGED <<serverVars, mergeVars, sessionVars, raceVars>>

\* execute() after fn returned
ExecReturn ==
  /\ AtEnd /\ Top.k = "exec"
  /\ LET e == Top.e
         gone == effs[e].deps \ Top.nextDeps
     IN /\ currentListener' = Top.prevListener
        /\ currentDeps' = Top.prevDeps
        /\ sListeners' = Unsubscribed(sListeners, e, gone)
        /\ stack' = UnsubscribedStack(Pop, sListeners, e, gone)
        /\ effs' = [effs EXCEPT ![e].deps = Top.nextDeps,
                                ![e].cleanup = TRUE, ![e].cleaned = 0]
  /\ UNCHANGED <<sVal, batchDepth, pendingEffects, effectDepth, flushing, thrown, nOps, gh>>
  /\ UNCHANGED <<serverVars, mergeVars, sessionVars, raceVars>>

\* the function effect() returned
DoDispose ==
  /\ AtInstr("dispose")
  /\ LET e == Top.prog[Top.pc].e
     IN /\ sListeners' = Unsubscribed(sListeners, e, effs[e].deps)
        /\ stack' = UnsubscribedStack(Advance(stack), sListeners, e, effs[e].deps)
        /\ effs' = [effs EXCEPT ![e] = [CleanedUp(@) EXCEPT !.deps = {},
                                                            !.state = "disposed"]]
  /\ UNCHANGED <<sVal, currentListener, currentDeps, batchDepth, pendingEffects,
                 effectDepth, flushing, thrown, nOps, gh>>
  /\ UNCHANGED <<serverVars, mergeVars, sessionVars, raceVars>>

\* fn throws, in the try block of execute() or of batch(), or in the caller
DoThrow ==
  /\ AtInstr("throw")
  /\ LET ins == Top.prog[Top.pc]
     IN IF ins.when = Always \/ Top.reg = ins.when
          THEN thrown' = TRUE /\ stack' = stack
          ELSE thrown' = thrown /\ stack' = Advance(stack)
  /\ UNCHANGED <<sVal, sListeners, currentListener, currentDeps, batchDepth,
                 pendingEffects, effectDepth, flushing, effs, nOps, gh>>
  /\ UNCHANGED <<serverVars, mergeVars, sessionVars, raceVars>>

\* ---- Signal.get, Signal.set, Signal.notify

DoGet ==
  /\ AtInstr("get") \/ AtInstr("getif")
  /\ LET ins == Top.prog[Top.pc]
         s == ins.sig
         reads == ins.op = "get" \/ Top.reg = ins.when
         st == [stack EXCEPT ![Len(stack)].pc = @ + 1,
                             ![Len(stack)].reg = IF ins.op = "get" THEN sVal[s] ELSE @]
     IN /\ sListeners' = IF reads /\ currentListener # NoListener
                           THEN [sListeners EXCEPT ![s] = AddLast(@, currentListener)]
                           ELSE sListeners
        /\ stack' = IF reads /\ currentDeps # NoDeps
                      THEN [st EXCEPT ![currentDeps].nextDeps = @ \cup {s}]
                      ELSE st
  /\ UNCHANGED <<sVal, currentListener, currentDeps, batchDepth, pendingEffects,
                 effectDepth, flushing, effs, thrown, nOps, gh>>
  /\ UNCHANGED <<serverVars, mergeVars, sessionVars, raceVars>>

\* peek(): the value, and nothing else
DoPeek ==
  /\ AtInstr("peek")
  /\ stack' = [stack EXCEPT ![Len(stack)].pc = @ + 1,
                            ![Len(stack)].reg = sVal[Top.prog[Top.pc].sig]]
  /\ UNCHANGED <<sVal, sListeners, currentListener, currentDeps, batchDepth,
                 pendingEffects, effectDepth, flushing, effs, thrown, nOps, gh>>
  /\ UNCHANGED <<serverVars, mergeVars, sessionVars, raceVars>>

\* A set that takes every value for a new one.
ChangesAlways(ins) == ins.when = Always \/ Top.reg = ins.when

\* set(newValue) is reached and !Object.is(this.value, newValue)
Changes(ins) ==
  /\ ins.when = Always \/ Top.reg = ins.when
  /\ NewValue(ins, Top.reg) # sVal[ins.sig]

\* set(): Object.is(this.value, newValue), or the write is not reached
SetSame ==
  /\ AtInstr("set")
  /\ ~Changes(Top.prog[Top.pc])
  /\ stack' = Advance(stack)
  /\ UNCHANGED <<sVal, sListeners, currentListener, currentDeps, batchDepth,
                 pendingEffects, effectDepth, flushing, effs, thrown, nOps, gh>>
  /\ UNCHANGED <<serverVars, mergeVars, sessionVars, raceVars>>

\* set() and notify() with batchDepth > 0
SetDeferred ==
  /\ AtInstr("set")
  /\ Changes(Top.prog[Top.pc])
  /\ batchDepth > 0
  /\ LET ins == Top.prog[Top.pc]
     IN /\ sVal' = [sVal EXCEPT ![ins.sig] = NewValue(ins, Top.reg)]
        /\ pendingEffects' = AddPending(pendingEffects, sListeners[ins.sig])
        /\ gh' = [gh EXCEPT
                    !.effectWrote = @ \/ InEffect,
                    !.touched = [e \in Effs |->
                                   IF InOuterBatch /\ e \in Range(sListeners[ins.sig])
                                     THEN CountUp(@[e]) ELSE @[e]]]
  /\ stack' = Advance(stack)
  /\ UNCHANGED <<sListeners, currentListener, currentDeps, batchDepth, effectDepth,
                 flushing, effs, thrown, nOps>>
  /\ UNCHANGED <<serverVars, mergeVars, sessionVars, raceVars>>

\* set() and notify() with batchDepth = 0, up to the loop over the listeners
SetNotify ==
  /\ AtInstr("set")
  /\ Changes(Top.prog[Top.pc])
  /\ batchDepth = 0
  /\ effectDepth + 1 <= MAX_EFFECT_DEPTH
  /\ LET ins == Top.prog[Top.pc]
     IN /\ sVal' = [sVal EXCEPT ![ins.sig] = NewValue(ins, Top.reg)]
        /\ stack' = Append(Advance(stack), NotifyFrame(ins.sig))
  /\ effectDepth' = effectDepth + 1
  /\ gh' = [gh EXCEPT !.effectWrote = @ \/ InEffect]
  /\ UNCHANGED <<sListeners, currentListener, currentDeps, batchDepth, pendingEffects,
                 flushing, effs, thrown, nOps>>
  /\ UNCHANGED <<serverVars, mergeVars, sessionVars, raceVars>>

\* set() and notify() with batchDepth = 0: effectDepth++ exceeds the bound,
\* the error is thrown and the finally block takes the increment back.
SetOverflow ==
  /\ AtInstr("set")
  /\ Changes(Top.prog[Top.pc])
  /\ batchDepth = 0
  /\ effectDepth + 1 > MAX_EFFECT_DEPTH
  /\ LET ins == Top.prog[Top.pc]
     IN sVal' = [sVal EXCEPT ![ins.sig] = NewValue(ins, Top.reg)]
  /\ thrown' = TRUE
  /\ gh' = [gh EXCEPT !.effectWrote = @ \/ InEffect]
  /\ UNCHANGED <<sListeners, currentListener, currentDeps, batchDepth, pendingEffects,
                 effectDepth, flushing, effs, stack, nOps>>
  /\ UNCHANGED <<serverVars, mergeVars, sessionVars, raceVars>>

\* notify(): for (const listener of this.listeners) listener()
NotifyRun ==
  /\ Running /\ Top.k = "notify"
  /\ Top.i < Len(sListeners[Top.sig])
  /\ RunEffect(sListeners[Top.sig][Top.i + 1],
               [stack EXCEPT ![Len(stack)].i = @ + 1,
                             ![Len(stack)].list =
                                AddLast(@, sListeners[Top.sig][Top.i + 1])])
  /\ UNCHANGED <<sVal, sListeners, batchDepth, pendingEffects, effectDepth, flushing,
                 thrown, nOps>>
  /\ UNCHANGED <<serverVars, mergeVars, sessionVars, raceVars>>

\* notify(): the loop is over; finally effectDepth--
NotifyReturn ==
  /\ Running /\ Top.k = "notify"
  /\ Top.i >= Len(sListeners[Top.sig])
  /\ effectDepth' = effectDepth - 1
  /\ stack' = Pop
  /\ UNCHANGED <<sVal, sListeners, currentListener, currentDeps, batchDepth,
                 pendingEffects, flushing, effs, thrown, nOps, gh>>
  /\ UNCHANGED <<serverVars, mergeVars, sessionVars, raceVars>>

\* ---- batch()

\* batch(fn): batchDepth++ and the call of fn
BatchCall ==
  /\ AtInstr("batch")
  /\ batchDepth' = batchDepth + 1
  /\ stack' = Append(Advance(stack), BatchFrame(Top.prog[Top.pc].body))
  /\ UNCHANGED <<sVal, sListeners, currentListener, currentDeps, pendingEffects,
                 effectDepth, flushing, effs, thrown, nOps, gh>>
  /\ UNCHANGED <<serverVars, mergeVars, sessionVars, raceVars>>

\* batch(fn): fn returned; finally batchDepth--, and the drain when this is
\* the outermost batch and no drain is in progress
BatchBodyEnd ==
  /\ AtEnd /\ Top.k = "batch"
  /\ batchDepth' = batchDepth - 1
  /\ IF batchDepth - 1 = 0 /\ ~flushing
       THEN /\ flushing' = TRUE
            /\ stack' = [stack EXCEPT ![Len(stack)].phase = "drain"]
       ELSE /\ flushing' = flushing
            /\ stack' = Pop
  /\ UNCHANGED <<sVal, sListeners, currentListener, currentDeps, pendingEffects,
                 effectDepth, effs, thrown, nOps, gh>>
  /\ UNCHANGED <<serverVars, mergeVars, sessionVars, raceVars>>

InDrain == Running /\ Top.k = "batch" /\ Top.phase = "drain"

\* for (const e of effects) e()
DrainRun ==
  /\ InDrain
  /\ Top.i < Len(Top.list)
  /\ RunEffect(Top.list[Top.i + 1], [stack EXCEPT ![Len(stack)].i = @ + 1])
  /\ UNCHANGED <<sVal, sListeners, batchDepth, pendingEffects, effectDepth, flushing,
                 thrown, nOps>>
  /\ UNCHANGED <<serverVars, mergeVars, sessionVars, raceVars>>

\* while (pendingEffects.size > 0) { effects = [...pendingEffects]; pendingEffects.clear()
DrainRefill ==
  /\ InDrain
  /\ Top.i >= Len(Top.list)
  /\ pendingEffects # <<>>
  /\ stack' = [stack EXCEPT ![Len(stack)].list = pendingEffects, ![Len(stack)].i = 0]
  /\ pendingEffects' = <<>>
  /\ UNCHANGED <<sVal, sListeners, currentListener, currentDeps, batchDepth,
                 effectDepth, flushing, effs, thrown, nOps, gh>>
  /\ UNCHANGED <<serverVars, mergeVars, sessionVars, raceVars>>

\* the while loop is over; finally flushing = false.  The outer finally
\* block is over with it, and the error that fn threw goes on.
DrainEnd ==
  /\ InDrain
  /\ Top.i >= Len(Top.list)
  /\ pendingEffects = <<>>
  /\ flushing' = FALSE
  /\ thrown' = Top.rethrow
  /\ stack' = Pop
  /\ UNCHANGED <<sVal, sListeners, currentListener, currentDeps, batchDepth,
                 pendingEffects, effectDepth, effs, nOps, gh>>
  /\ UNCHANGED <<serverVars, mergeVars, sessionVars, raceVars>>

\* ---- the end of a call from outside, and the error on its way out

TopReturn ==
  /\ AtEnd /\ Top.k = "top"
  /\ stack' = <<>>
  /\ UNCHANGED <<sVal, sListeners, currentListener, currentDeps, batchDepth,
                 pendingEffects, effectDepth, flushing, effs, thrown, nOps, gh>>
  /\ UNCHANGED <<serverVars, mergeVars, sessionVars, raceVars>>

Unwinding(k) == stack # <<>> /\ thrown /\ Top.k = k

\* notify() without its finally block
UnwindNotifyKeepsDepth ==
  /\ Unwinding("notify")
  /\ stack' = Pop
  /\ UNCHANGED <<sVal, sListeners, currentListener, currentDeps, batchDepth,
                 pendingEffects, effectDepth, flushing, effs, thrown, nOps, gh>>
  /\ UNCHANGED <<serverVars, mergeVars, sessionVars, raceVars>>

\* notify(): finally effectDepth--
UnwindNotify ==
  /\ Unwinding("notify")
  /\ effectDepth' = effectDepth - 1
  /\ stack' = Pop
  /\ UNCHANGED <<sVal, sListeners, currentListener, currentDeps, batchDepth,
                 pendingEffects, flushing, effs, thrown, nOps, gh>>
  /\ UNCHANGED <<serverVars, mergeVars, sessionVars, raceVars>>

\* execute(): finally currentListener = prevListener; currentDeps = prevDeps.
\* deps is not assigned; effect() itself fails when this is its first run.
UnwindExec ==
  /\ Unwinding("exec")
  /\ currentListener' = Top.prevListener
  /\ currentDeps' = Top.prevDeps
  /\ stack' = Pop
  /\ effs' = [effs EXCEPT
                ![Top.e].aborted = TRUE,
                ![Top.e].state = IF stack[Len(stack) - 1].k # "notify"
                                    /\ stack[Len(stack) - 1].phase = "body"
                                   THEN "failed" ELSE @]
  /\ UNCHANGED <<sVal, sListeners, batchDepth, pendingEffects, effectDepth, flushing,
                 thrown, nOps, gh>>
  /\ UNCHANGED <<serverVars, mergeVars, sessionVars, raceVars>>

\* batch(), fn threw: finally batchDepth--, and the drain when this is the
\* outermost batch and no drain is in progress; the error goes on after it
UnwindBody ==
  /\ Unwinding("batch") /\ Top.phase = "body"
  /\ batchDepth' = batchDepth - 1
  /\ IF batchDepth - 1 = 0 /\ ~flushing
       THEN /\ flushing' = TRUE
            /\ thrown' = FALSE
            /\ stack' = [stack EXCEPT ![Len(stack)].phase = "drain",
                                      ![Len(stack)].rethrow = TRUE]
       ELSE /\ flushing' = flushing
            /\ thrown' = thrown
            /\ stack' = Pop
  /\ UNCHANGED <<sVal, sListeners, currentListener, currentDeps, pendingEffects,
                 effectDepth, effs, nOps, gh>>
  /\ UNCHANGED <<serverVars, mergeVars, sessionVars, raceVars>>

\* batch(), in the drain loop: finally flushing = false
UnwindDrain ==
  /\ Unwinding("batch") /\ Top.phase = "drain"
  /\ flushing' = FALSE
  /\ stack' = Pop
  /\ UNCHANGED <<sVal, sListeners, currentListener, currentDeps, batchDepth,
                 pendingEffects, effectDepth, effs, thrown, nOps, gh>>
  /\ UNCHANGED <<serverVars, mergeVars, sessionVars, raceVars>>

\* the error reaches the caller
UnwindTop ==
  /\ Unwinding("top")
  /\ stack' = <<>>
  /\ thrown' = FALSE
  /\ gh' = [gh EXCEPT !.error = TRUE]
  /\ UNCHANGED <<sVal, sListeners, currentListener, currentDeps, batchDepth,
                 pendingEffects, effectDepth, flushing, effs, nOps>>
  /\ UNCHANGED <<serverVars, mergeVars, sessionVars, raceVars>>

\* ================================================================ SESSION
\* The connection of the client session: the socket and its reconnect loop,
\* the send queue and the table of pendingCalls calls.

MaxCalls == 2    \* calls made through the api proxy
MaxSends == 3    \* calls of send (api calls, open and close messages)

BaseDelay == 1000
MaxDelay == 30000

RequestIds == 1..MaxCalls

Min(a, b) == IF a < b THEN a ELSE b

\* A message passed to send: n is its rank among the calls of send, rid its
\* request id, 0 for a message without id (open, close).  queued is a
\* history field: whether the message went through the queue.
Outbound(n, rid) == [n |-> n, rid |-> rid, queued |-> FALSE]

\* How a socket closes: what happened, and the close code the handler gets.
\* The server answers the upgrade of a connection whose token it rejects
\* with status 401, which the client sees as code 1006 while connecting; 4001
\* is the code of an explicit rejection; everything else (network failure,
\* idle timeout, shutdown) comes as 1006 or 1000.
Closes ==
  {[cause |-> "rejected", code |-> 1006], [cause |-> "rejected", code |-> 4001],
   [cause |-> "other", code |-> 1006], [cause |-> "other", code |-> 1000]}

\* A reconnect loop that keeps its delay.
KeepDelay(d) == d

\* delay = Math.min(delay * 2, 30000)
NextDelay(d) == Min(d * 2, MaxDelay)

\* A flush that takes the messages from the tail of the queue.
RECURSIVE DrainFromTail(_)
DrainFromTail(q) ==
  IF q = <<>> THEN <<>> ELSE <<q[Len(q)]>> \o DrainFromTail(SubSeq(q, 1, Len(q) - 1))

\* while (queue.length) ws.send(queue.shift()): the messages sent, in order.
RECURSIVE Drain(_)
Drain(q) == IF q = <<>> THEN <<>> ELSE <<Head(q)>> \o Drain(Tail(q))

\* A close handler that leaves the pendingCalls table as it is.
NotCleared(p) == p

\* pending.clear()
Cleared(p) == {}

\* send(msg)
send(msg) ==
  IF readyState = "open"
    THEN wire' = Append(wire, msg) /\ queue' = queue
    ELSE queue' = Append(queue, [msg EXCEPT !.queued = TRUE]) /\ wire' = wire

\* connect(token): the state after open() was called for the first time.
SessionIdle ==
  /\ readyState = "connecting"
  /\ status = "connecting..."
  /\ profile = FALSE
  /\ token = TRUE
  /\ delay = BaseDelay
  /\ timer = 0
  /\ lastDelay = 0
  /\ queue = <<>>
  /\ wire = <<>>
  /\ pendingCalls = {}
  /\ lastId = 0
  /\ nSent = 0
  /\ settled = [r \in RequestIds |-> 0]
  /\ closeCause = "none"
  /\ docKeys = {}
  /\ base = 0

\* open(), called when the timeout of the reconnect loop fires.
Open ==
  /\ timer # 0
  /\ timer' = 0
  /\ readyState' = "connecting"
  /\ status' = "connecting..."
  /\ UNCHANGED <<docKeys, base, closeCause, profile, token, delay, lastDelay, queue, wire, pendingCalls, lastId,
                 nSent, settled, serverVars, mergeVars, signalVars, raceVars>>

\* ws.onopen
OnOpen ==
  /\ readyState = "connecting"
  /\ readyState' = "open"
  /\ status' = "connected"
  /\ delay' = BaseDelay
  /\ lastDelay' = 0
  /\ wire' = wire \o Drain(queue)
  /\ queue' = <<>>
  /\ base' = Len(wire)
  /\ UNCHANGED <<docKeys, closeCause, profile, token, timer, pendingCalls, lastId, nSent, settled,
                 serverVars, mergeVars, signalVars, raceVars>>

\* The test of ws.onclose that ends the reconnect loop.
TokenError(code) == code = 4001 \/ (~profile /\ code = 1006)

\* ws.onclose
OnClose(e) ==
  /\ readyState \in {"connecting", "open"}
  /\ e.cause = "rejected" /\ e.code = 1006 => readyState = "connecting"
  /\ readyState' = "closed"
  /\ status' = "disconnected"
  /\ settled' = [r \in RequestIds |-> IF r \in pendingCalls THEN settled[r] + 1 ELSE settled[r]]
  /\ pendingCalls' = Cleared(pendingCalls)
  /\ IF TokenError(e.code)
       THEN /\ token' = FALSE
            /\ UNCHANGED <<timer, delay, lastDelay>>
       ELSE /\ timer' = delay
            /\ lastDelay' = delay
            /\ delay' = NextDelay(delay)
            /\ token' = token
  /\ closeCause' = e.cause
  /\ UNCHANGED <<docKeys, base, profile, queue, wire, lastId, nSent, serverVars, mergeVars,
                 signalVars, raceVars>>

\* ws.onmessage for a message of type "profile"
OnProfile ==
  /\ readyState = "open"
  /\ profile' = TRUE
  /\ UNCHANGED <<docKeys, base, closeCause, readyState, status, token, delay, timer, lastDelay, queue, wire,
                 pendingCalls, lastId, nSent, settled, serverVars, mergeVars, signalVars,
                 raceVars>>

\* ws.onmessage for a response with request id rid
OnResponse(rid) ==
  /\ readyState = "open"
  /\ IF rid \notin pendingCalls
       THEN UNCHANGED <<pendingCalls, settled>>
       ELSE /\ pendingCalls' = pendingCalls \ {rid}
            /\ settled' = [settled EXCEPT ![rid] = @ + 1]
  /\ UNCHANGED <<docKeys, base, closeCause, readyState, status, profile, token, delay, timer, lastDelay, queue,
                 wire, lastId, nSent, serverVars, mergeVars, signalVars, raceVars>>

\* api.fn(...args)
ApiCall ==
  /\ lastId < MaxCalls /\ nSent < MaxSends
  /\ lastId' = lastId + 1
  /\ pendingCalls' = pendingCalls \cup {lastId + 1}
  /\ nSent' = nSent + 1
  /\ send(Outbound(nSent + 1, lastId + 1))
  /\ UNCHANGED <<docKeys, base, closeCause, readyState, status, profile, token, delay, timer, lastDelay,
                 settled, serverVars, mergeVars, signalVars, raceVars>>

\* openDoc and closeDoc: send(msg) for a message without request id
DocSend ==
  /\ nSent < MaxSends
  /\ nSent' = nSent + 1
  /\ send(Outbound(nSent + 1, 0))
  /\ UNCHANGED <<docKeys, base, closeCause, readyState, status, profile, token, delay, timer, lastDelay,
                 pendingCalls, lastId, settled, serverVars, mergeVars, signalVars,
                 raceVars>>

\* An open or a close message of document key k, n its rank among the calls
\* of send.
DocMessage(n, type, k) == [n |-> n, rid |-> 0, queued |-> FALSE, type |-> type, key |-> k]

\* openDoc(fn, id, data): docs.set(key, ...) and send({ type: "open", ... })
openDoc(k) ==
  /\ nSent < MaxSends
  /\ nSent' = nSent + 1
  /\ docKeys' = docKeys \cup {k}
  /\ send(DocMessage(nSent + 1, "open", k))
  /\ UNCHANGED <<base, closeCause, readyState, status, profile, token, delay, timer,
                 lastDelay, pendingCalls, lastId, settled, serverVars, mergeVars,
                 signalVars, raceVars>>

\* closeDoc(fn, id): docs.delete(key) and send({ type: "close", ... })
closeDoc(k) ==
  /\ nSent < MaxSends
  /\ nSent' = nSent + 1
  /\ docKeys' = docKeys \ {k}
  /\ send(DocMessage(nSent + 1, "close", k))
  /\ UNCHANGED <<base, closeCause, readyState, status, profile, token, delay, timer,
                 lastDelay, pendingCalls, lastId, settled, serverVars, mergeVars,
                 signalVars, raceVars>>

\* ================================================================ SERVER

NConns == 2
NKeys == 2
MaxPages == 3
MaxTasks == 2
MaxTargets == 2
\* Connections that have connected plus open handlers running at a time.
MaxLoad == 3

Conns == 1..NConns
Keys == 1..NKeys
TaskIds == 1..MaxTasks

\* The cursor null (also the cursor of a first call "from the start").
NullCursor == 0

\* The result of a cursor-aware backing function called with cursor cur:
\* keyset pagination as documented for cursor-aware doc functions (the page
\* after the cursor; the cursor of the page while more remain, NULL on the
\* last).  more is what the store holds beyond the page when it is called.
BackingPage(cur, more) ==
  LET p == cur + 1
  IN [page |-> p, hasMore |-> more, cursor |-> IF more THEN p ELSE NullCursor]

\* The hasMore values a call with cursor cur may return (a finite store).
MoreChoices(cur) == IF cur + 1 < MaxPages THEN BOOLEAN ELSE {FALSE}

\* A message handed to ws.send.  task is the handler that produced it, tgt
\* the index of the change event's target, rid the request id of a response
\* (0 when it has none); afterClose, afterDisconnect and req are history
\* fields: what was true of the connection when it was sent, and the branch
\* of the message handler that sent a response.
Msg(type, op, k, page, cursor, hasMore, task, tgt, ac, ad) ==
  [type |-> type, op |-> op, key |-> k, page |-> page, cursor |-> cursor,
   hasMore |-> hasMore, task |-> task, tgt |-> tgt, rid |-> 0, req |-> "none",
   afterClose |-> ac, afterDisconnect |-> ad]

\* A response that leaves the request's id out.
ResponseWithoutId(rid, ok, task, req) ==
  [Msg("response", IF ok THEN "ok" ELSE "error", 0, 0, NullCursor, FALSE, task, 0,
       FALSE, FALSE) EXCEPT !.req = req]

\* { id, ok: true, data } and { id, ok: false, error }
Response(rid, ok, task, req) ==
  [Msg("response", IF ok THEN "ok" ELSE "error", 0, 0, NullCursor, FALSE, task, 0,
       FALSE, FALSE) EXCEPT !.rid = rid, !.req = req]

ProfileMsg == Msg("profile", "none", 0, 0, NullCursor, FALSE, 0, 0, FALSE, FALSE)

\* A handler suspended at an await: pc is the await ("first": the first
\* backing call, "loop": a call of the streaming loop), cur the cursor passed
\* to the call in flight.  closedSince is a history field: whether a close
\* of its key was processed on the connection since its open.
Task(id, kind, c, k, hasCursor, stream, pc, cur, closedSince) ==
  [id |-> id, kind |-> kind, conn |-> c, key |-> k, hasCursor |-> hasCursor,
   stream |-> stream, pc |-> pc, cur |-> cur, closedSince |-> closedSince,
   rid |-> 0, fn |-> "doc"]

\* The handler of a request (kind "call" or "fetch") with request id rid,
\* suspended at the await of SELECT fn(...).
CallTask(id, kind, c, rid, fn) ==
  [Task(id, kind, c, 0, FALSE, FALSE, "first", NullCursor, FALSE)
     EXCEPT !.rid = rid, !.fn = fn]

Load == Cardinality({c \in Conns : conn[c] # "new"})
        + Cardinality({t \in tasks : t.kind # "profile"})

\* ws.send(m) on connection c.
Send(c, m) == <<[ws |-> c, msg |-> m]>>

\* websocket.open: clients.push(ws), then the profile call is awaited.
Connect(c) ==
  /\ conn[c] = "new"
  /\ Load < MaxLoad
  /\ conn' = [conn EXCEPT ![c] = "open"]
  /\ clients' = Append(clients, c)
  /\ tasks' = tasks \cup
       {Task(0, "profile", c, 0, FALSE, FALSE, "first", NullCursor, FALSE)}
  /\ out' = <<>> /\ change' = <<>>
  /\ UNCHANGED <<docs, mergeVars, signalVars, sessionVars, raceVars>>

\* websocket.open resumed: the profile is sent.
ProfileReturn(t) ==
  /\ t \in tasks /\ t.kind = "profile"
  /\ out' = Send(t.conn, ProfileMsg)
  /\ tasks' = tasks \ {t}
  /\ change' = <<>>
  /\ UNCHANGED <<conn, clients, docs, mergeVars, signalVars, sessionVars, raceVars>>

\* The peer of connection c goes away; the close handler has not run yet, so
\* the connection is still in the clients array with its registry, and no
\* message arrives on it any more.  A ws.send on it fails: it returns the
\* status "dropped", which no caller reads.
PeerGone(c) ==
  /\ conn[c] = "open"
  /\ conn' = [conn EXCEPT ![c] = "gone"]
  /\ out' = <<>> /\ change' = <<>>
  /\ UNCHANGED <<clients, docs, tasks, mergeVars, signalVars, sessionVars, raceVars>>

\* A close handler that leaves the clients array as it is.
NotSpliced(cl, c) == cl

\* const i = clients.indexOf(ws); if (i !== -1) clients.splice(i, 1)
Spliced(cl, c) ==
  IF c \notin Range(cl) THEN cl
  ELSE LET i == CHOOSE i \in 1..Len(cl) :
                  cl[i] = c /\ \A h \in 1..(i - 1) : cl[h] # c
       IN SubSeq(cl, 1, i - 1) \o SubSeq(cl, i + 1, Len(cl))

\* websocket.close: the connection leaves the clients array.
Disconnect(c) ==
  /\ conn[c] \in {"open", "gone"}
  /\ conn' = [conn EXCEPT ![c] = "closed"]
  /\ clients' = Spliced(clients, c)
  /\ out' = <<>> /\ change' = <<>>
  /\ UNCHANGED <<docs, tasks, mergeVars, signalVars, sessionVars, raceVars>>

\* The options of an open message: (hasCursor, stream).
OpenOpts == {<<FALSE, FALSE>>, <<TRUE, FALSE>>, <<TRUE, TRUE>>}

FreeIds == TaskIds \ {t.id : t \in tasks}

\* An open that registers the key only after its backing call.
AddedLater(registry, k) == registry

\* ws.data.docs.add(key), on a Set
Added(registry, k) == registry \cup {k}

\* message, type "open", up to its first await: the key is registered and
\* the first backing call is started.
RecvOpen(c, k, hasCursor, stream) ==
  /\ conn[c] = "open"
  /\ FreeIds # {}
  /\ Load < MaxLoad
  /\ docs' = [docs EXCEPT ![c] = Added(@, k)]
  /\ LET id == CHOOSE i \in FreeIds : \A j \in FreeIds : i <= j
     IN tasks' = tasks \cup
          {Task(id, "open", c, k, hasCursor, stream, "first", NullCursor, FALSE)}
  /\ out' = <<>> /\ change' = <<>>
  /\ UNCHANGED <<conn, clients, mergeVars, signalVars, sessionVars, raceVars>>

\* A delete that leaves the key in the registry.
Kept(registry, k) == registry

\* ws.data.docs.delete(key), on a Set
Deleted(registry, k) == registry \ {k}

\* message, type "close": the key is deleted from the registry.  (History:
\* the opens of that key still running on the connection are marked.)
RecvClose(c, k) ==
  /\ conn[c] = "open"
  /\ docs' = [docs EXCEPT ![c] = Deleted(@, k)]
  /\ tasks' = {IF t.kind = "open" /\ t.conn = c /\ t.key = k
                 THEN [t EXCEPT !.closedSince = TRUE] ELSE t : t \in tasks}
  /\ out' = <<>> /\ change' = <<>>
  /\ UNCHANGED <<conn, clients, mergeVars, signalVars, sessionVars, raceVars>>

\* The condition of the streaming loop, while (cur && ws.data.docs.has(key)).
LoopHeadContinues(t, cur) == cur # NullCursor /\ t.key \in docs[t.conn]

\* A loop that does not advance its cursor.
LoopHeadStaleCursor(t, cur) ==
  IF LoopHeadContinues(t, cur)
    THEN tasks' = (tasks \ {t}) \cup {[t EXCEPT !.pc = "loop"]}
    ELSE tasks' = tasks \ {t}

\* Task t at the head of the loop with cursor cur: it starts the next
\* backing call or returns.
LoopHead(t, cur) ==
  IF LoopHeadContinues(t, cur)
    THEN tasks' = (tasks \ {t}) \cup {[t EXCEPT !.pc = "loop", !.cur = cur]}
    ELSE tasks' = tasks \ {t}

\* The handler returns.
Return(t) == tasks' = tasks \ {t}

\* A loop that is entered whether or not the open asked for a stream.
StreamsUnasked(t, r) == r.hasMore /\ r.cursor # NullCursor

\* Whether the streaming loop is entered after the first page.
StartsStreaming(t, r) == t.stream /\ r.hasMore /\ r.cursor # NullCursor

\* message, type "open", resumed with the first result.
OpenFirstReturn(t, more) ==
  /\ t \in tasks /\ t.kind = "open" /\ t.pc = "first"
  /\ more \in MoreChoices(NullCursor)
  /\ LET r == BackingPage(NullCursor, more)
         closed == conn[t.conn] = "closed"
     IN IF t.hasCursor
          THEN /\ out' = Send(t.conn, Msg("notify", "set", t.key, r.page,
                                r.cursor, r.hasMore, t.id, 0, t.closedSince, closed))
               /\ IF StartsStreaming(t, r) THEN LoopHead(t, r.cursor) ELSE Return(t)
          ELSE /\ more = FALSE
               /\ out' = Send(t.conn, Msg("notify", "set", t.key, 0, NullCursor,
                                FALSE, t.id, 0, t.closedSince, closed))
               /\ Return(t)
  /\ change' = <<>>
  /\ UNCHANGED <<conn, clients, docs, mergeVars, signalVars, sessionVars, raceVars>>

\* A catch clause that withdraws the subscription of the failed open.
CatchUnregisters(t) == docs' = [docs EXCEPT ![t.conn] = @ \ {t.key}]

\* The catch clause of the open handler: the registry is not touched.
Catch(t) == docs' = docs

\* message, type "open", resumed with the first call raising: the catch
\* clause sends the error push.
OpenFirstFail(t) ==
  /\ t \in tasks /\ t.kind = "open" /\ t.pc = "first"
  /\ out' = Send(t.conn, Msg("error", "none", t.key, 0, NullCursor, FALSE,
                   t.id, 0, t.closedSince, conn[t.conn] = "closed"))
  /\ tasks' = tasks \ {t}
  /\ change' = <<>>
  /\ Catch(t)
  /\ UNCHANGED <<conn, clients, mergeVars, signalVars, sessionVars, raceVars>>

\* The streaming loop resumed with the next page.
LoopReturn(t, more) ==
  /\ t \in tasks /\ t.kind = "open" /\ t.pc = "loop"
  /\ more \in MoreChoices(t.cur)
  /\ LET nr == BackingPage(t.cur, more)
     IN /\ out' = Send(t.conn, Msg("notify", "append", t.key, nr.page,
                         nr.cursor, nr.hasMore, t.id, 0, t.closedSince,
                         conn[t.conn] = "closed"))
        /\ IF ~nr.hasMore THEN Return(t) ELSE LoopHead(t, nr.cursor)
  /\ change' = <<>>
  /\ UNCHANGED <<conn, clients, docs, mergeVars, signalVars, sessionVars, raceVars>>

\* The streaming loop resumed with its call raising: the catch clause sends
\* the error push, after the pages already sent.
LoopFail(t) ==
  /\ t \in tasks /\ t.kind = "open" /\ t.pc = "loop"
  /\ out' = Send(t.conn, Msg("error", "none", t.key, 0, NullCursor, FALSE,
                   t.id, 0, t.closedSince, conn[t.conn] = "closed"))
  /\ tasks' = tasks \ {t}
  /\ change' = <<>>
  /\ UNCHANGED <<conn, clients, docs, mergeVars, signalVars, sessionVars, raceVars>>

\* ---- guards and requests

MaxRid == 2
Rids == 1..MaxRid

\* The function names of the messages: a function of the application, a
\* private function, a function of the preAuth list, and a spelling that
\* the database resolves to the latter (an unquoted identifier is folded to
\* lower case).
FnTexts == {"save_thing", "_verify_token", "login", "LOGIN"}

\* config.preAuth
PreAuth == {"login"}

\* msg.fn.startsWith("_")
StartsWithUnderscore(fn) == fn = "_verify_token"

\* The two guards of the message handler.
Guarded(fn) == StartsWithUnderscore(fn) \/ fn \in PreAuth

\* The function that SELECT ${msg.fn}(...) invokes.
Resolves(fn) == IF fn = "LOGIN" THEN "login" ELSE fn

MsgTypes == {"call", "open", "close", "fetch"}

\* message, raw is not JSON: { id: null, ok: false, error: "bad json" }
RecvBadJson(c) ==
  /\ conn[c] = "open"
  /\ out' = Send(c, Response(0, FALSE, 0, "json"))
  /\ change' = <<>>
  /\ UNCHANGED <<conn, clients, docs, tasks, mergeVars, signalVars, sessionVars, raceVars>>

\* message of any type whose fn is stopped by a guard: the reply carries
\* msg.id, which an open or a close does not have.
RecvGuarded(c, type, fn, rid) ==
  /\ conn[c] = "open"
  /\ Guarded(fn)
  /\ out' = Send(c, Response(IF type \in {"call", "fetch"} THEN rid ELSE 0, FALSE, 0,
                              "guard"))
  /\ change' = <<>>
  /\ UNCHANGED <<conn, clients, docs, tasks, mergeVars, signalVars, sessionVars, raceVars>>

\* A request up to its await: the backing call is started.
StartCall(c, kind, fn, rid) ==
  /\ conn[c] = "open"
  /\ ~Guarded(fn)
  /\ FreeIds # {}
  /\ Load < MaxLoad
  /\ LET id == CHOOSE i \in FreeIds : \A j \in FreeIds : i <= j
     IN tasks' = tasks \cup {CallTask(id, kind, c, rid, fn)}
  /\ out' = <<>> /\ change' = <<>>
  /\ UNCHANGED <<conn, clients, docs, mergeVars, signalVars, sessionVars, raceVars>>

\* A request answered by a push on the subscription channel.
RespondByPush(t, ok) ==
  /\ out' = Send(t.conn, Msg("notify", "append", 1, 1, NullCursor, FALSE, t.id, 0,
                              FALSE, FALSE))
  /\ tasks' = tasks \ {t}
  /\ change' = <<>>
  /\ UNCHANGED <<conn, clients, docs, mergeVars, signalVars, sessionVars, raceVars>>

\* A request resumed: the response with the request's id is sent.
Respond(t, ok) ==
  /\ out' = Send(t.conn, Response(t.rid, ok, t.id, t.kind))
  /\ tasks' = tasks \ {t}
  /\ change' = <<>>
  /\ UNCHANGED <<conn, clients, docs, mergeVars, signalVars, sessionVars, raceVars>>

\* message, type "fetch"
RecvFetch(c, fn, rid) == StartCall(c, "fetch", fn, rid)

\* message, type "fetch", resumed with the page, or with the call raising
FetchReturn(t) == t \in tasks /\ t.kind = "fetch" /\ Respond(t, TRUE)
FetchFail(t) == t \in tasks /\ t.kind = "fetch" /\ Respond(t, FALSE)

\* message without type: { id, fn, args }
RecvCall(c, fn, rid) == StartCall(c, "call", fn, rid)

\* message without type, resumed with the result, or with the call raising
CallReturn(t) == t \in tasks /\ t.kind = "call" /\ Respond(t, TRUE)
CallFail(t) == t \in tasks /\ t.kind = "call" /\ Respond(t, FALSE)

\* A fan-out that notifies a connection once per event, not once per target.
ClientSendsOncePerEvent(targets, i) ==
  LET subs == SelectSeq(clients, LAMBDA c :
                /\ targets[i] \in docs[c]
                /\ \A h \in 1..(i - 1) : targets[h] \notin docs[c])
  IN [j \in 1..Len(subs) |->
        [ws |-> subs[j],
         msg |-> Msg("notify", "change", targets[i], 0, NullCursor, FALSE, 0, i,
                     FALSE, FALSE)]]

\* A fan-out that does not look at the registries.
ClientSendsToAll(targets, i) ==
  [j \in 1..Len(clients) |->
     [ws |-> clients[j],
      msg |-> Msg("notify", "change", targets[i], 0, NullCursor, FALSE, 0, i,
                  FALSE, FALSE)]]

\* sql.listen("change"): the entries pushed on the sends array for target i.
ClientSends(targets, i) ==
  LET subs == SelectSeq(clients, LAMBDA c : targets[i] \in docs[c])
  IN [j \in 1..Len(subs) |->
        [ws |-> subs[j],
         msg |-> Msg("notify", "change", targets[i], 0, NullCursor, FALSE, 0, i,
                     FALSE, FALSE)]]

\* The sends array for targets i..Len(targets).
RECURSIVE Sends(_, _)
Sends(targets, i) ==
  IF i > Len(targets) THEN <<>>
  ELSE ClientSends(targets, i) \o Sends(targets, i + 1)

TargetLists == UNION {[1..n -> Keys] : n \in 0..MaxTargets}

\* A change event read from the change channel: every entry of the sends
\* array is sent, in order.
Dispatch(targets) ==
  /\ out' = Sends(targets, 1)
  /\ change' = targets
  /\ UNCHANGED <<conn, clients, docs, tasks, mergeVars, signalVars, sessionVars, raceVars>>

\* ---- a document on its way from the database to the client
\* One connection (1) and one document key (1): the document is a collection
\* that grows by one item with every change committed.

MaxCommits == 2
NotRead == 0 - 1

RECURSIVE ItemsUpTo(_)
ItemsUpTo(n) == IF n = 0 THEN <<>> ELSE Append(ItemsUpTo(n - 1), Item(n, 1))

\* What the document function returns when n changes are committed.
DocAt(n) == CollectionDoc(ItemsUpTo(n))

\* The payload of pg_notify('change', ...) of change n, as the message the
\* listener makes of it for a target.
ChangeOf(n) == Event("upsert", <<"posts">>, <<>>, Item(n, 1), NoPage)

\* Nothing committed, nothing in flight.
RaceIdle ==
  /\ store = 0
  /\ feed = <<>>
  /\ readOf = [i \in TaskIds |-> NotRead]
  /\ link = <<>>

\* A save function commits: Mutate, then pg_notify on channel "change".
Commit ==
  /\ store < MaxCommits
  /\ store' = store + 1
  /\ feed' = Append(feed, store + 1)
  /\ UNCHANGED <<readOf, link, serverVars, mergeVars, signalVars, sessionVars>>

\* message, type "open", of the document the client has opened, up to its
\* await: the key is registered and the backing call is started.
OpenReceived ==
  /\ conn[1] = "open"
  /\ mOpen /\ 1 \notin docs[1]
  /\ FreeIds # {}
  /\ docs' = [docs EXCEPT ![1] = Added(@, 1)]
  /\ LET id == CHOOSE i \in FreeIds : \A j \in FreeIds : i <= j
     IN /\ tasks' = tasks \cup
             {Task(id, "open", 1, 1, FALSE, FALSE, "first", NullCursor, FALSE)}
        /\ readOf' = [readOf EXCEPT ![id] = NotRead]
  /\ out' = <<>> /\ change' = <<>>
  /\ UNCHANGED <<conn, clients, store, feed, link, mergeVars, signalVars, sessionVars>>

\* The database runs SELECT fn(...) of an open: it reads what is committed.
BackingCallRuns(t) ==
  /\ t \in tasks /\ t.kind = "open"
  /\ readOf[t.id] = NotRead
  /\ readOf' = [readOf EXCEPT ![t.id] = store]
  /\ UNCHANGED <<store, feed, link, serverVars, mergeVars, signalVars, sessionVars>>

\* message, type "open", resumed with the result: the snapshot is sent.
SnapshotSent(t) ==
  /\ t \in tasks /\ t.kind = "open"
  /\ readOf[t.id] # NotRead
  /\ link' = Append(link, Event("set", <<>>, <<>>, DocAt(readOf[t.id]), NoPage))
  /\ out' = Send(1, Msg("notify", "set", 1, 0, NullCursor, FALSE, t.id, 0,
                        t.closedSince, conn[1] = "closed"))
  /\ tasks' = tasks \ {t}
  /\ readOf' = [readOf EXCEPT ![t.id] = NotRead]
  /\ change' = <<>>
  /\ UNCHANGED <<conn, clients, docs, store, feed, mergeVars, signalVars, sessionVars>>

\* sql.listen("change", ...): the notification is sent to the connection
\* when it is in the clients array with the key in its registry.
ChangeHeard ==
  /\ feed # <<>>
  /\ feed' = Tail(feed)
  /\ IF 1 \in Range(clients) /\ 1 \in docs[1]
       THEN /\ link' = Append(link, ChangeOf(Head(feed)))
            /\ out' = Send(1, Msg("notify", "change", 1, 0, NullCursor, FALSE, 0, 1,
                                  FALSE, conn[1] = "closed"))
       ELSE /\ link' = link
            /\ out' = <<>>
  /\ change' = <<1>>
  /\ UNCHANGED <<conn, clients, docs, tasks, store, readOf, mergeVars, signalVars,
                 sessionVars>>

\* ws.onmessage for the next message of type "notify": merge(msg)
NotifyArrives ==
  /\ link # <<>>
  /\ link' = Tail(link)
  /\ LET msg == Head(link)
         r == Merge(mTree, msg)
     IN /\ mCount' = mCount + 1
        /\ IF ~mOpen \/ ~Truthy(msg.data)
             THEN /\ mLast' = Handled("ignored", msg, FALSE, FALSE)
                  /\ UNCHANGED <<mOpen, mTree, mCursor, mHasMore>>
             ELSE /\ mCursor' = IF msg.paged THEN msg.cursor ELSE mCursor
                  /\ mHasMore' = IF msg.paged THEN msg.hasMore ELSE mHasMore
                  /\ mTree' = r.tree
                  /\ mLast' = [Handled("notify", msg, r.notified, r.threw)
                                 EXCEPT !.rootKey = FirstKey(mTree)]
                  /\ UNCHANGED mOpen
  /\ UNCHANGED <<store, feed, readOf, serverVars, signalVars, sessionVars>>

\* No connection yet: clients = [], nothing in flight.
ServerIdle ==
  /\ conn = [c \in Conns |-> "new"]
  /\ clients = <<>>
  /\ docs = [c \in Conns |-> {}]
  /\ tasks = {}
  /\ out = <<>>
  /\ change = <<>>

InitServer == ServerIdle /\ MergeIdle /\ SignalsIdle /\ SessionIdle /\ RaceIdle

NextServer ==
  \/ \E c \in Conns : Connect(c)
  \/ \E c \in Conns : PeerGone(c)
  \/ \E c \in Conns : Disconnect(c)
  \/ \E t \in tasks : ProfileReturn(t)
  \/ \E c \in Conns, k \in Keys, o \in OpenOpts : RecvOpen(c, k, o[1], o[2])
  \/ \E c \in Conns, k \in Keys : RecvClose(c, k)
  \/ \E t \in tasks, more \in BOOLEAN : OpenFirstReturn(t, more)
  \/ \E t \in tasks : OpenFirstFail(t)
  \/ \E t \in tasks, more \in BOOLEAN : LoopReturn(t, more)
  \/ \E t \in tasks : LoopFail(t)
  \/ \E targets \in TargetLists : Dispatch(targets)

SpecServer == InitServer /\ [][NextServer]_vars

\* The server answering requests: the guards, the function calls and the
\* fetches of its connections, beside subscriptions opened without cursor
\* and the fan-out of change events.
NextRequests ==
  \/ \E c \in Conns : Connect(c)
  \/ \E c \in Conns : PeerGone(c)
  \/ \E c \in Conns : Disconnect(c)
  \/ \E t \in tasks : ProfileReturn(t)
  \/ \E c \in Conns, k \in Keys : RecvOpen(c, k, FALSE, FALSE)
  \/ \E c \in Conns, k \in Keys : RecvClose(c, k)
  \/ \E t \in tasks : OpenFirstReturn(t, FALSE)
  \/ \E t \in tasks : OpenFirstFail(t)
  \/ \E c \in Conns : RecvBadJson(c)
  \/ \E c \in Conns, type \in MsgTypes, fn \in FnTexts, rid \in Rids :
       RecvGuarded(c, type, fn, rid)
  \/ \E c \in Conns, fn \in FnTexts, rid \in Rids : RecvFetch(c, fn, rid)
  \/ \E t \in tasks : FetchReturn(t)
  \/ \E t \in tasks : FetchFail(t)
  \/ \E c \in Conns, fn \in FnTexts, rid \in Rids : RecvCall(c, fn, rid)
  \/ \E t \in tasks : CallReturn(t)
  \/ \E t \in tasks : CallFail(t)
  \/ \E targets \in TargetLists : Dispatch(targets)

SpecRequests == InitServer /\ [][NextRequests]_vars

\* A backing call that is awaited returns: the continuation of the streaming
\* loop is run.
FairSpecServer ==
  /\ SpecServer
  /\ \A id \in TaskIds :
       WF_vars(\E t \in tasks, more \in BOOLEAN : t.id = id /\ LoopReturn(t, more))

\* ---- the specification of a document that is opened while it changes

InitRace == ServerIdle /\ MergeIdle /\ SignalsIdle /\ SessionIdle /\ RaceIdle

\* The client opens the document once, on the first connection.
NextRace ==
  \/ Connect(1)
  \/ \E t \in tasks : ProfileReturn(t)
  \/ ~mOpen /\ OpenDoc
  \/ OpenReceived
  \/ Commit
  \/ \E t \in tasks : BackingCallRuns(t)
  \/ \E t \in tasks : SnapshotSent(t)
  \/ ChangeHeard
  \/ NotifyArrives

SpecRace == InitRace /\ [][NextRace]_vars

\* ---- the specification of the merge engine

InitMerge == MergeIdle /\ ServerIdle /\ SignalsIdle /\ SessionIdle /\ RaceIdle

NextMerge ==
  \/ OpenDoc
  \/ CloseDoc
  \/ \E msg \in Events : OnNotify(msg)
  \/ \E text \in ErrorTexts : OnError(text)

SpecMerge == InitMerge /\ [][NextMerge]_vars

\* ---- the specification of the runtime

InitSignals == SignalsIdle /\ ServerIdle /\ MergeIdle /\ SessionIdle /\ RaceIdle

\* The runtime goes on with the call in progress.
RuntimeStep ==
  \/ DoEffect
  \/ ExecReturn
  \/ DoDispose
  \/ DoGet
  \/ DoPeek
  \/ DoThrow
  \/ SetSame
  \/ SetDeferred
  \/ SetNotify
  \/ SetOverflow
  \/ NotifyRun
  \/ NotifyReturn
  \/ BatchCall
  \/ BatchBodyEnd
  \/ DrainRun
  \/ DrainRefill
  \/ DrainEnd
  \/ TopReturn
  \/ UnwindNotify
  \/ UnwindExec
  \/ UnwindBody
  \/ UnwindDrain
  \/ UnwindTop

NextSignals ==
  \/ \E body \in Bodies : CreateEffect(body)
  \/ \E s \in Written, v \in Bits : Write(s, v)
  \/ \E body \in BatchBodies : Batch(body)
  \/ \E e \in Effs : Dispose(e)
  \/ RuntimeStep

SpecSignals == InitSignals /\ [][NextSignals]_vars

\* A call in progress runs on: the runtime is synchronous code.
FairSpecSignals == SpecSignals /\ WF_vars(RuntimeStep)

\* ---- the specification of the client connection

InitSession == SessionIdle /\ ServerIdle /\ MergeIdle /\ SignalsIdle /\ RaceIdle

NextSession ==
  \/ Open
  \/ OnOpen
  \/ \E e \in Closes : OnClose(e)
  \/ OnProfile
  \/ \E rid \in RequestIds : OnResponse(rid)
  \/ ApiCall
  \/ DocSend

SpecSession == InitSession /\ [][NextSession]_vars

\* The session and the documents it opens and closes, with the registry
\* that the server keeps for the socket of the session.
NextDocs ==
  \/ Open
  \/ OnOpen
  \/ \E e \in Closes : OnClose(e)
  \/ OnProfile
  \/ \E k \in Keys : openDoc(k)
  \/ \E k \in Keys : closeDoc(k)

SpecDocs == InitSession /\ [][NextDocs]_vars

\* The timeout of the reconnect loop fires, and of the attempts to connect
\* one succeeds in the end.
FairSpecDocs == SpecDocs /\ WF_vars(Open) /\ SF_vars(OnOpen)

\* The registry of a connection that has received the messages w: docs is a
\* new Set() at the upgrade, an open adds its key and a close deletes it.
RECURSIVE ServerDocs(_)
ServerDocs(w) ==
  IF w = <<>> THEN {}
  ELSE LET m == w[Len(w)]
           before == ServerDocs(SubSeq(w, 1, Len(w) - 1))
       IN IF m.type = "open" THEN Added(before, m.key) ELSE Deleted(before, m.key)

\* The registry of the connection of the current socket when the server has
\* received what the socket has transmitted.
Registered ==
  IF readyState = "open" THEN ServerDocs(SubSeq(wire, base + 1, Len(wire))) ELSE {}

\* ------------------------------------------ claims on the client connection

\* C37: a document that the client holds open is in the end registered in
\* the registry of the connection of the current socket, or closed by the
\* client, or the session has ended with the token rejected; also after
\* the socket was closed and another one opened.
HeldDocsRegistered ==
  \A k \in Keys : [](k \in docKeys => <>(k \notin docKeys \/ k \in Registered \/ ~token))

\* The socket closes in the step.
Closing == readyState # "closed" /\ readyState' = "closed"

\* The reconnect loop has stopped: the socket is closed and no timeout is
\* pending.
Stopped == readyState = "closed" /\ timer = 0

\* C16: end of the reconnect loop.  The loop stops exactly when the socket
\* closes because the server rejected the authentication: then no reconnect
\* is scheduled, then or ever after, and the stored token is cleared; after a
\* close for any other reason a reconnect is scheduled, however many closes
\* came before.
ReconnectUntilRejected ==
  /\ [][Closing => /\ (closeCause' = "rejected") <=> Stopped'
                   /\ Stopped' => ~token'
                   /\ ~Stopped' => timer' # 0 /\ token' = token]_vars
  /\ [][Stopped => Stopped']_vars

\* The socket opens in the step.
Opening == readyState # "open" /\ readyState' = "open"

\* C17: reconnect backoff bounds.  The delay of the first reconnect after the
\* start or after a successful open is the base 1000 ms, the delay of each
\* further reconnect is twice the one before, capped at 30000 ms; so the
\* delays between two opens never decrease and every delay is in
\* [1000, 30000]; an open resets the delay to the base.
BackoffBounds ==
  /\ [](/\ delay >= BaseDelay /\ delay <= MaxDelay
        /\ timer # 0 => timer >= BaseDelay /\ timer <= MaxDelay)
  /\ [][(Closing /\ timer' # 0) =>
          /\ timer' = IF lastDelay = 0 THEN BaseDelay ELSE Min(2 * lastDelay, MaxDelay)
          /\ timer' >= lastDelay
          /\ delay' = Min(2 * delay, MaxDelay)]_vars
  /\ [][Opening => delay' = BaseDelay]_vars

\* The reconnect loop has reached the cap: a reconnect is pending with the
\* delay 30000, after one with 30000 (16000 doubled and capped).
BackoffWitness == timer = MaxDelay /\ delay = MaxDelay /\ readyState = "closed"

\* C18: pending calls.  A close rejects every pending call and empties the
\* pending table; a response with the id of a pending call settles that call
\* and removes its entry, the other entries staying; a response with an id
\* that is not pending changes nothing; no call is settled twice.
PendingSettledOnce ==
  /\ [][Closing => /\ pendingCalls' = {}
                   /\ \A r \in RequestIds :
                        settled'[r] = settled[r] + (IF r \in pendingCalls THEN 1 ELSE 0)]_vars
  /\ [][\A rid \in RequestIds :
          OnResponse(rid) =>
            IF rid \in pendingCalls
              THEN /\ pendingCalls' = pendingCalls \ {rid}
                   /\ settled' = [settled EXCEPT ![rid] = settled[rid] + 1]
              ELSE UNCHANGED sessionVars]_vars
  /\ [](\A r \in RequestIds : settled[r] <= 1)

\* Both calls were made and are settled, one that went over the open socket
\* and one that was queued while the socket was not open.
PendingWitness ==
  /\ lastId = MaxCalls /\ pendingCalls = {}
  /\ \A r \in RequestIds : settled[r] = 1
  /\ \E i, j \in 1..Len(wire) :
       /\ wire[i].rid # 0 /\ ~wire[i].queued
       /\ wire[j].rid # 0 /\ wire[j].queued

\* C19: outbound queue.  A message passed to send while the socket is not
\* open is put at the tail of the queue and not transmitted; an open
\* transmits the whole queue in its order and empties it.  So the messages
\* transmitted and the messages queued are, in this order, the messages
\* passed to send in the order of the calls, each once: none is dropped, none
\* is transmitted twice or after a later message.
OutboundFifo ==
  /\ [](/\ Len(wire \o queue) = nSent
        /\ \A i \in 1..nSent : (wire \o queue)[i].n = i
        /\ readyState = "open" => queue = <<>>)
  /\ [][(nSent' = nSent + 1 /\ readyState # "open") =>
          /\ wire' = wire /\ Len(queue') = Len(queue) + 1
          /\ SubSeq(queue', 1, Len(queue)) = queue
          /\ queue'[Len(queue')].n = nSent']_vars
  /\ [][Opening => wire' = wire \o queue /\ queue' = <<>>]_vars

\* A message sent over the open socket was followed on the wire by two
\* messages that were queued while the socket was not open.
OutboundWitness ==
  /\ Len(wire) = 3
  /\ ~wire[1].queued /\ wire[2].queued /\ wire[3].queued
  /\ readyState = "open"

\* ------------------------------------------------------ claims on the server

\* The messages of the last step sent on connection c for target i of the
\* dispatched change event.
Notified(c, i) ==
  {j \in 1..Len(out) : /\ out[j].ws = c
                       /\ out[j].msg.op = "change"
                       /\ out[j].msg.tgt = i
                       /\ out[j].msg.key = change[i]}

\* C1: fan-out completeness.  When a change event is dispatched, for each of
\* its targets every connection of the clients array that has the target's
\* key in its registry is sent exactly one notify for that target, every
\* other connection none, and nothing else is sent.  (Dispatch leaves the
\* registry as it is, so the registry of the state after the step is the one
\* the event saw.)
FanOutComplete ==
  /\ \A c \in Conns, i \in 1..Len(change) :
       Cardinality(Notified(c, i)) =
         IF c \in Range(clients) /\ change[i] \in docs[c] THEN 1 ELSE 0
  /\ \A j \in 1..Len(out) :
       out[j].msg.op = "change" =>
         /\ out[j].msg.tgt \in 1..Len(change)
         /\ out[j].msg.key = change[out[j].msg.tgt]

\* An event with two different targets reached a connection that has both
\* keys open (two notifications) and one that has only one of them.
FanOutWitness ==
  /\ Len(change) = 2 /\ change[1] # change[2]
  /\ Len(clients) = 2
  /\ \E c \in Conns, d \in Conns :
       /\ c # d
       /\ Cardinality(Notified(c, 1)) = 1 /\ Cardinality(Notified(c, 2)) = 1
       /\ Cardinality(Notified(d, 1)) + Cardinality(Notified(d, 2)) = 1

\* C4: stream cancellation on close.  No append page of a streaming loop is
\* sent on a connection once a close of the loop's key has been processed on
\* it: the result of the call in flight is discarded.
StreamCancelledOnClose ==
  \A j \in 1..Len(out) : out[j].msg.op = "append" => ~out[j].msg.afterClose

\* The backing calls of streaming loops that the step starts.
CallsStarted == {t \in tasks' : t.kind = "open" /\ t.pc = "loop" /\ t \notin tasks}

\* C5: stream cancellation on disconnect.  Once the close handler of a
\* connection has run, no streaming loop of that connection starts a backing
\* call and none sends a page.
StreamCancelledOnDisconnect ==
  [][/\ \A t \in CallsStarted : conn[t.conn] # "closed"
     /\ \A j \in 1..Len(out') :
          out'[j].msg.op = "append" => ~out'[j].msg.afterDisconnect]_vars

\* The tasks of the next state that continue task t.
Continues(t) == {u \in tasks' : u.id = t.id}

\* Each time an open with stream=true is resumed with a
\* page, it sends exactly one notification: the set of page 1 after the first
\* call, the append of the page after the cursor it passed after a call of
\* the loop.  While the document stays open, a page with hasMore is followed
\* by a call with the cursor that page returned, and the handler returns
\* after the page without hasMore.
StreamDeliverySteps ==
  [][\A t \in tasks :
       (/\ t.kind = "open" /\ t.hasCursor /\ t.stream
        /\ out' # <<>> /\ out'[1].msg.task = t.id /\ out'[1].msg.type = "notify")
       => LET m == out'[1].msg
          IN /\ Len(out') = 1
             /\ out'[1].ws = t.conn /\ m.key = t.key
             /\ t.pc = "first" => m.op = "set" /\ m.page = 1
             /\ t.pc = "loop" => m.op = "append" /\ m.page = t.cur + 1
             /\ (m.hasMore /\ t.key \in docs[t.conn]) =>
                  /\ Continues(t) # {}
                  /\ \A u \in Continues(t) : u.pc = "loop" /\ u.cur = m.cursor
             /\ ~m.hasMore => Continues(t) = {}]_vars

\* Every streaming loop ends, the store holding finitely many pages.
StreamTerminates ==
  \A id \in TaskIds : []<>(~ \E t \in tasks : t.id = id /\ t.pc = "loop")

\* C6: stream delivery.  An open with stream=true whose document stays open
\* sends the first page as one set and every later page as one append, each
\* fetched with the cursor the page before returned, in page order, until the
\* page without hasMore, and the loop terminates.
StreamDelivery == StreamDeliverySteps /\ StreamTerminates

\* The last page of a stream of MaxPages pages is sent on a connection that
\* kept the document open.
StreamDeliveryWitness ==
  /\ Len(out) = 1
  /\ out[1].msg.op = "append" /\ out[1].msg.page = MaxPages /\ ~out[1].msg.hasMore
  /\ ~out[1].msg.afterClose /\ ~out[1].msg.afterDisconnect

\* The entries of the sends array of a change event with the given targets
\* that go to connection c for key k.
SendsTo(targets, c, k) ==
  {j \in 1..Len(Sends(targets, 1)) : /\ Sends(targets, 1)[j].ws = c
                                     /\ Sends(targets, 1)[j].msg.key = k}

\* C11: failed open.  When the first backing call of an open raises, the
\* handler sends one error push for the open's key on the opening connection
\* and nothing else (no snapshot, then or later: the handler has returned),
\* and the registry is left as it is; so a connection that still has the key
\* is sent the later change events that target it.
OpenFailureKeepsKey ==
  [][\A t \in tasks :
       (t.kind = "open" /\ t.pc = "first" /\ OpenFirstFail(t))
       => /\ Len(out') = 1
          /\ out'[1].ws = t.conn
          /\ out'[1].msg.type = "error" /\ out'[1].msg.key = t.key
          /\ \A u \in tasks' : u.id # t.id
          /\ docs' = docs
          /\ (t.key \in docs[t.conn] /\ t.conn \in Range(clients)) =>
               \A targets \in TargetLists :
                 Cardinality((SendsTo(targets, t.conn, t.key))') =
                   Cardinality({i \in 1..Len(targets) : targets[i] = t.key})]_vars

\* The error push of a failed open was sent on a connection of the clients
\* array that still has the key in its registry.
OpenFailureWitness ==
  /\ Len(out) = 1 /\ out[1].msg.type = "error"
  /\ out[1].ws \in Range(clients)
  /\ out[1].msg.key \in docs[out[1].ws]
  /\ ~ \E t \in tasks : t.kind = "open" /\ t.conn = out[1].ws /\ t.key = out[1].msg.key

\* The sends of the last dispatch that failed: the peer was gone.
FailedSends == {j \in 1..Len(out) : out[j].msg.op = "change" /\ conn[out[j].ws] = "gone"}

\* C12: dispatch-time send failure.  When a send of a dispatch fails because
\* the peer is gone, the other subscribers of the event are still sent it
\* and the subscriber whose send failed is taken out of the registry: it is
\* no longer in the clients array, or no longer has the key.
FailedSubscriberRemoved ==
  /\ FanOutComplete
  /\ \A j \in FailedSends :
       out[j].ws \notin Range(clients) \/ out[j].msg.key \notin docs[out[j].ws]

\* The handlers of earlier messages of connection c that have not returned:
\* their snapshot, pages or error push are still to come.
Unfinished(c) == {t \in tasks : t.kind = "open" /\ t.conn = c}

\* C20: arrival order within a connection.  The effects of a message
\* (registry update, start of its backing call) are produced only when every
\* earlier message of the same connection has produced all of its effects and
\* replies: no handler of the connection is still waiting for its backing call.
InArrivalOrder ==
  [][\A c \in Conns, k \in Keys :
       (RecvClose(c, k) \/ \E o \in OpenOpts : RecvOpen(c, k, o[1], o[2]))
       => Unfinished(c) = {}]_vars

\* The responses of this step to the request that handler t serves.
ResponsesTo(t) ==
  {i \in DOMAIN out' : /\ out'[i].msg.type = "response"
                       /\ out'[i].msg.rid = t.rid
                       /\ out'[i].ws = t.conn}

\* C23: an open of a key adds the key to the connection's registry, which is
\* a set: when the key is open already the registry does not change, so it
\* holds one entry for the (connection, key) however often the key has been
\* opened; and one close of the key leaves no entry for it.
IdempotentOpen ==
  [][/\ \A t \in tasks' \ tasks :
          (t.kind = "open" /\ RecvOpen(t.conn, t.key, t.hasCursor, t.stream)) =>
            /\ docs'[t.conn] = docs[t.conn] \cup {t.key}
            /\ (t.key \in docs[t.conn] => docs' = docs)
            /\ \A d \in Conns \ {t.conn} : docs'[d] = docs[d]
     /\ \A c \in Conns, k \in Keys : RecvClose(c, k) => k \notin docs'[c]
    ]_vars

\* Two opens of key 1 on connection 1 were running when one close of the
\* key arrived: the registry of the connection holds no entry for the key.
IdempotentOpenWitness ==
  /\ conn[1] = "open"
  /\ 1 \notin docs[1]
  /\ Cardinality({t \in tasks : /\ t.kind = "open" /\ t.conn = 1 /\ t.key = 1
                                /\ t.closedSince}) = 2

\* The step receives an open of key k on connection c: the backing call of
\* a new open is started.
OpenArrives(c, k) ==
  \E t \in tasks' : /\ t.id \notin {u.id : u \in tasks}
                     /\ t.kind = "open" /\ t.conn = c /\ t.key = k

\* C39: the registry of a connection changes with the arrival of open and
\* close messages and with nothing else: the step that receives an open of
\* key k leaves k in the registry, the step that receives a close of k
\* leaves k out of it, and no other step (a backing call that returns or
\* fails, a page of a stream, a change event, another key's message) adds
\* or removes k.  So k is in the registry exactly when the last message
\* received for k was an open.
RegistryFollowsArrival ==
  [][\A c \in Conns, k \in Keys :
       /\ (k \in docs'[c] /\ k \notin docs[c]) => OpenArrives(c, k)
       /\ (k \notin docs'[c] /\ k \in docs[c]) => RecvClose(c, k)
       /\ OpenArrives(c, k) => k \in docs'[c]
       /\ (k \in docs[c] /\ conn' = conn /\ RecvClose(c, k)) => k \notin docs'[c]
    ]_vars

\* Open, close and open of key 1 arrived on connection 1 while the backing
\* call of the first open was in flight: the key is registered.
RegistryFollowsArrivalWitness ==
  /\ conn[1] = "open"
  /\ 1 \in docs[1]
  /\ \E t \in tasks : t.kind = "open" /\ t.conn = 1 /\ t.key = 1 /\ t.closedSince
  /\ \E t \in tasks : t.kind = "open" /\ t.conn = 1 /\ t.key = 1 /\ ~t.closedSince

\* C24: a close removes the key from the registry of its connection and of
\* no other, so that a change event dispatched in the state it leaves has no
\* entry for that connection and key, and no change event is ever sent to a
\* connection for a key that is not in its registry; a close of a key that
\* is not open changes nothing; a close sends nothing.
CloseUnsubscribes ==
  /\ [](\A j \in 1..Len(out) :
          out[j].msg.op = "change" => out[j].msg.key \in docs[out[j].ws])
  /\ [][\A c \in Conns, k \in Keys :
          RecvClose(c, k) =>
            /\ k \notin docs'[c]
            /\ \A d \in Conns \ {c} : docs'[d] = docs[d]
            /\ \A targets \in TargetLists : (SendsTo(targets, c, k))' = {}
            /\ (k \notin docs[c] => UNCHANGED <<conn, clients, docs, tasks>>)
            /\ out' = <<>>
       ]_vars

\* Connection 1 closed key 1 while its open of the key was running; the
\* change event for key 1 dispatched since was sent to connection 2, which
\* has the key open, and not to connection 1.
CloseUnsubscribesWitness ==
  /\ change = <<1>>
  /\ conn[1] = "open" /\ conn[2] = "open"
  /\ 1 \notin docs[1]
  /\ \E t \in tasks : t.kind = "open" /\ t.conn = 1 /\ t.key = 1 /\ t.closedSince
  /\ Len(out) = 1 /\ out[1].ws = 2 /\ out[1].msg.op = "change"

\* C25: once the close handler of a connection has run, the connection is
\* in the clients array no more, so that a change event dispatched in the
\* state it leaves has no entry for the connection whatever its targets;
\* the handler leaves the registries of the other connections as they
\* were; and no change event is ever sent to a connection whose close
\* handler has run.
DisconnectUnsubscribes ==
  /\ [](\A j \in 1..Len(out) :
          out[j].msg.op = "change" => conn[out[j].ws] # "closed")
  /\ [][\A c \in Conns :
          Disconnect(c) =>
            /\ c \notin Range(clients')
            /\ \A targets \in TargetLists, k \in Keys :
                 (SendsTo(targets, c, k))' = {}
            /\ \A d \in Conns \ {c} :
                 docs'[d] = docs[d] /\ (d \in Range(clients') <=> d \in Range(clients))
       ]_vars

\* Connection 1 had key 1 open when its close handler ran; the change event
\* for key 1 dispatched since was sent to connection 2 only.
DisconnectUnsubscribesWitness ==
  /\ change = <<1>>
  /\ conn[1] = "closed" /\ conn[2] = "open"
  /\ 1 \in docs[1] /\ 1 \in docs[2]
  /\ Len(out) = 1 /\ out[1].ws = 2 /\ out[1].msg.op = "change"

\* The opens with cursor or limit and without stream.
PagedOnce(t) == t.kind = "open" /\ t.hasCursor /\ ~t.stream

\* C26: when the first call of an open with cursor or limit and without
\* stream returns a page, the handler sends one set notification for the
\* open's key on the opening connection, with the page, its cursor and its
\* hasMore, sends nothing else and returns, whatever hasMore is; such an
\* open is never in the streaming loop, and every append page comes from an
\* open that asked for a stream.
PagedOpenSendsOneSet ==
  /\ [](\A t \in tasks : PagedOnce(t) => t.pc = "first")
  /\ [][/\ \A t \in tasks, more \in BOOLEAN :
            (PagedOnce(t) /\ OpenFirstReturn(t, more)) =>
              /\ Len(out') = 1
              /\ out'[1].ws = t.conn
              /\ out'[1].msg.type = "notify" /\ out'[1].msg.op = "set"
              /\ out'[1].msg.key = t.key
              /\ out'[1].msg.page = BackingPage(NullCursor, more).page
              /\ out'[1].msg.cursor = BackingPage(NullCursor, more).cursor
              /\ out'[1].msg.hasMore = more
              /\ \A u \in tasks' : u.id # t.id
         /\ \A j \in 1..Len(out') :
              out'[j].msg.op = "append" =>
                \E u \in tasks : u.id = out'[j].msg.task /\ u.stream
       ]_vars

\* An open with cursor and without stream was answered with a first page
\* that has more pages after it: one set with hasMore and the cursor, the
\* handler has returned, and the key is still in the registry.
PagedOpenWitness ==
  /\ Len(out) = 1
  /\ out[1].msg.op = "set" /\ out[1].msg.hasMore /\ out[1].msg.cursor # NullCursor
  /\ out[1].msg.key \in docs[out[1].ws]
  /\ conn[out[1].ws] = "open"
  /\ \A u \in tasks : u.id # out[1].msg.task

\* C27: a fetch leaves the registries as they are, when it arrives and when
\* its backing call returns or raises; its outcome is one response with
\* the request's id on the requesting connection, and the step sends
\* nothing else, so no notify results from a fetch.
FetchLeavesRegistry ==
  [][/\ \A t \in tasks' \ tasks :
          t.kind = "fetch" => docs' = docs /\ out' = <<>>
     /\ \A t \in tasks :
          (t.kind = "fetch" /\ t \notin tasks') =>
            /\ docs' = docs
            /\ Len(out') = 1
            /\ out'[1].ws = t.conn
            /\ out'[1].msg.type = "response"
            /\ out'[1].msg.rid = t.rid
            /\ out'[1].msg.op \in {"ok", "error"}
            /\ tasks' = tasks \ {t}
    ]_vars

\* The page of a fetch of connection 1, which has a key open, has been
\* returned with the id of the request, while connection 2 has a key open.
FetchWitness ==
  /\ Len(out) = 1
  /\ out[1].ws = 1
  /\ out[1].msg.req = "fetch" /\ out[1].msg.op = "ok" /\ out[1].msg.rid = MaxRid
  /\ conn[1] = "open"
  /\ docs[1] # {} /\ docs[2] # {}
  /\ 2 \in Range(clients)

\* C21: a function-call request processed on a connection yields exactly one
\* response, which carries the request's id and is sent to the requesting
\* connection only, ok=true with the result or ok=false when the backing
\* function raises; the step sends nothing else, no response is sent for a
\* call that is not being processed, and the connections, the client list
\* and the registries are left as they were.
CallAnsweredOnce ==
  [][/\ \A t \in tasks : (t.kind = "call" /\ t \notin tasks') =>
          /\ Cardinality(ResponsesTo(t)) = 1
          /\ Len(out') = 1
          /\ out'[1].msg.op \in {"ok", "error"}
          /\ out'[1].msg.task = t.id
          /\ tasks' = tasks \ {t}
          /\ conn' = conn /\ clients' = clients /\ docs' = docs
     /\ \A i \in DOMAIN out' : out'[i].msg.req = "call" =>
          \E t \in tasks \ tasks' : t.kind = "call" /\ t.id = out'[i].msg.task
    ]_vars

\* A backing error of a call of connection 1 has been answered with the id
\* of the request, while connection 2 is open and both hold subscriptions.
CallAnsweredWitness ==
  /\ Len(out) = 1
  /\ out[1].ws = 1
  /\ out[1].msg.req = "call" /\ out[1].msg.op = "error" /\ out[1].msg.rid = MaxRid
  /\ conn[1] = "open" /\ conn[2] = "open"
  /\ docs[1] # {} /\ docs[2] # {}
  /\ clients = <<1, 2>>

\* C22: no message makes the server invoke a backing function whose name
\* starts with "_" or that is in the preAuth list: no handler is waiting for
\* a call of such a function.
NoGuardedInvocation ==
  \A t \in tasks : t.kind \in {"call", "fetch"} => ~Guarded(Resolves(t.fn))

\* ------------------------------------------------ claims on the merge engine

\* Every array anywhere in x holds no two elements with the same id.
RECURSIVE UniqueArrays(_)
UniqueArrays(x) ==
  /\ IsArray(x) => UniqueIds(x.v)
  /\ \A i \in 1..Len(Entries(x)) : UniqueArrays(Entries(x)[i][2])

\* C2: dedup invariant.  An append or upsert merge applied to a tree whose
\* arrays all have unique ids leaves a tree whose arrays all have unique ids,
\* whatever the payload.
DedupInvariant ==
  [][\A msg \in Events :
       (/\ msg.op \in {"append", "upsert"}
        /\ mOpen /\ Truthy(mTree) /\ UniqueArrays(mTree)
        /\ OnNotify(msg))
       => UniqueArrays(mTree')]_vars

\* A collection document: one root key that names an array.
IsCollectionTree(x) == x.t = "obj" /\ Len(x.v) = 1 /\ IsArray(x.v[1][2])

\* C3: an append whose payload has the shape {rootKey: [items]} of the
\* collection document it is applied to appends at the tail, in payload
\* order, exactly the payload items whose id is not yet in the array
\* (posts [1,2] with payload posts [2,3] gives posts [1,2,3]).
AppendDocShape ==
  [][\A msg \in Events :
       (/\ msg.op = "append"
        /\ mOpen /\ IsCollectionTree(mTree) /\ IsCollectionTree(msg.data)
        /\ msg.data.v[1][1] = mTree.v[1][1]
        /\ OnNotify(msg))
       => mTree' = Obj(<< <<mTree.v[1][1], PushNew(mTree.v[1][2], msg.data.v[1][2])>> >>)]_vars

\* A step in which an upsert or a remove with a collection path was merged
\* into the open document.
ChangeMerged(msg) ==
  /\ msg.op \in {"upsert", "remove"} /\ msg.collection # <<>>
  /\ mOpen /\ Truthy(msg.data)
  /\ OnNotify(msg)

\* The change messages that the step may have merged: those with the
\* operation and the path that the step records, and any payload.
ChangesOfStep ==
  IF mLast'.kind = "notify" /\ mLast'.op \in {"upsert", "remove"}
    THEN {Event(mLast'.op, mLast'.collection, mLast'.parent_ids, d, NoPage) :
            d \in ChangePayloads}
    ELSE {}

\* The array reached from the tree along a collection path: from the
\* document root object when the first segment is the root key, from the root
\* entity otherwise, descending for segment i into the element whose id is
\* ids[i].  ok is false when an array is missing or no element has the id.
RECURSIVE Descend(_, _, _, _, _)
Descend(tree, at, segments, ids, i) ==
  LET here == Append(at, segments[i])
      arr == GetIn(tree, here)
      NotFound == [ok |-> FALSE, path |-> <<>>]
  IN IF ~IsArray(arr) THEN NotFound
     ELSE IF i = Len(segments) THEN [ok |-> TRUE, path |-> here]
     ELSE IF i > Len(ids) THEN NotFound
     ELSE LET hits == {j \in 1..Len(arr.v) : ItemId(arr.v[j]) = Num(ids[i])}
          IN IF hits = {} THEN NotFound
             ELSE Descend(tree,
                          Append(here, ToString((CHOOSE j \in hits : \A h \in hits : j <= h) - 1)),
                          segments, ids, i + 1)

Reached(tree, msg) ==
  Descend(tree,
          IF msg.collection[1] = FirstKey(tree) THEN <<>> ELSE <<FirstKey(tree)>>,
          msg.collection, msg.parent_ids, 1)

\* C13: merge order preservation.  An upsert of an id the target array has
\* replaces the item at its index, every other item and the length staying as
\* they were; an upsert of a new id appends the item at the tail; a remove
\* deletes one item with the id, the others keeping their order, and changes
\* nothing when no item has the id.
MergeOrderPreserved ==
  [][\A msg \in ChangesOfStep :
       (ChangeMerged(msg) /\ mLast'.notified)
       => LET path == Reached(mTree, msg).path
              old == GetIn(mTree, path).v
              new == GetIn(mTree', path).v
              hits == {i \in 1..Len(old) : ItemId(old[i]) = ItemId(msg.data)}
              Removed(i) == [j \in 1..(Len(old) - 1) |->
                               IF j < i THEN old[j] ELSE old[j + 1]]
          IN /\ Reached(mTree, msg).ok
             /\ (msg.op = "upsert" /\ hits # {}) =>
                  /\ Len(new) = Len(old)
                  /\ \E i \in hits : /\ new[i] = msg.data
                                     /\ \A j \in 1..Len(old) : j # i => new[j] = old[j]
             /\ (msg.op = "upsert" /\ hits = {}) => new = Append(old, msg.data)
             /\ (msg.op = "remove" /\ hits # {}) => \E i \in hits : new = Removed(i)
             /\ (msg.op = "remove" /\ hits = {}) => new = old]_vars

\* An upsert replaced the first of two items of a collection in place: the
\* updated item is followed by an item of the snapshot.
MergeOrderWitness ==
  /\ mLast.kind = "notify" /\ mLast.op = "upsert" /\ mLast.notified
  /\ mLast.collection = <<"posts">>
  /\ LET posts == Prop(mTree, "posts")
     IN /\ IsArray(posts) /\ Len(posts.v) = 2
        /\ Prop(posts.v[1], "v") = Num(MaxVal)
        /\ Prop(posts.v[2], "v") = Num(1)

\* C14: target of a change.  For an upsert or a remove whose collection path
\* has n segments and n-1 parent ids, the merge modifies the array reached
\* along the path and nothing else: it sets the signal when that array is
\* reached, and the tree it sets differs from the old one in that array only.
MergeTargetExact ==
  [][\A msg \in ChangesOfStep :
       (ChangeMerged(msg) /\ Len(msg.parent_ids) = Len(msg.collection) - 1)
       => LET r == Reached(mTree, msg)
          IN /\ r.ok => mLast'.notified
             /\ (mLast'.notified \/ mTree' # mTree) =>
                  /\ r.ok
                  /\ IsArray(GetIn(mTree', r.path))
                  /\ mTree' = SetIn(mTree, r.path, GetIn(mTree', r.path))]_vars

\* An item was put in the array subs of the first parent of an entity
\* document, the subs of the second parent staying empty.
MergeTargetWitness ==
  /\ mLast.kind = "notify" /\ mLast.op = "upsert" /\ mLast.notified
  /\ mLast.collection = <<"items", "subs">> /\ mLast.parent_ids = <<1>>
  /\ IsArray(GetIn(mTree, <<"thing", "items", "0", "subs">>))
  /\ GetIn(mTree, <<"thing", "items", "0", "subs">>) # Arr(<<>>)
  /\ GetIn(mTree, <<"thing", "items", "1", "subs">>) = Arr(<<>>)

\* A lookup along the collection path fails: the property of a segment is
\* missing (undefined or null), or the array of an intermediate segment has
\* no element with the parent id.
RECURSIVE LookupFails(_, _, _, _, _)
LookupFails(tree, at, segments, ids, i) ==
  LET here == Append(at, segments[i])
      arr == GetIn(tree, here)
  IN \/ arr.t \in {"undef", "null"}
     \/ /\ i < Len(segments) /\ IsArray(arr)
        /\ LET hits == {j \in 1..Len(arr.v) :
                          i <= Len(ids) /\ ItemId(arr.v[j]) = Num(ids[i])}
           IN \/ hits = {}
              \/ LookupFails(tree,
                     Append(here, ToString((CHOOSE j \in hits : \A h \in hits : j <= h) - 1)),
                     segments, ids, i + 1)

SetReplacesTree ==
  [][mLast'.op = "set" =>
       \A msg \in Events :
         (msg.op = "set" /\ mOpen /\ OnNotify(msg)) => mTree' = msg.data]_vars

\* A change without collection path that the step merges into a tree whose
\* root entity is an object.
RootChangeMerged(msg) ==
  /\ msg.collection = <<>>
  /\ mOpen /\ Truthy(msg.data)
  /\ Truthy(mTree) /\ Prop(mTree, FirstKey(mTree)).t = "obj"
  /\ OnNotify(msg)

FieldNames(x) == {Entries(x)[i][1] : i \in 1..Len(Entries(x))}

\* C29: an upsert without collection path replaces the root entity by the
\* shallow merge of the payload over it: the tree keeps its root key, under
\* which every field of the payload has the payload's value and every other
\* field of the root entity, nested arrays included, the value it had, and
\* there is no further field.
RootUpsertMerges ==
  [][\A msg \in ChangesOfStep :
       (msg.op = "upsert" /\ RootChangeMerged(msg))
       => LET rootKey == FirstKey(mTree)
              old == Prop(mTree, rootKey)
              new == Prop(mTree', rootKey)
          IN /\ mLast'.notified
             /\ FirstKey(mTree') = rootKey
             /\ new.t = "obj"
             /\ FieldNames(new) = FieldNames(old) \cup FieldNames(msg.data)
             /\ \A k \in FieldNames(msg.data) : Prop(new, k) = Prop(msg.data, k)
             /\ \A k \in FieldNames(old) \ FieldNames(msg.data) : Prop(new, k) = Prop(old, k)
    ]_vars

\* An upsert without collection path gave the root entity a new name and
\* left its array of two items as it was.
RootUpsertWitness ==
  /\ mLast.kind = "notify" /\ mLast.op = "upsert" /\ mLast.notified
  /\ mLast.collection = <<>> /\ mLast.rootKey = "thing"
  /\ FirstKey(mTree) = "thing"
  /\ GetIn(mTree, <<"thing", "name">>) = Num(MaxVal)
  /\ GetIn(mTree, <<"thing", "id">>) = Num(1)
  /\ IsArray(GetIn(mTree, <<"thing", "items">>))
  /\ Len(GetIn(mTree, <<"thing", "items">>).v) = MaxItems

\* C30: a remove without collection path on an open entity document sets
\* the tree to { _removed: true }; that tree is not null, is truthy under
\* its _removed property, and no snapshot of a document has the property.
RootRemovalSentinel ==
  [][\A msg \in ChangesOfStep :
       (msg.op = "remove" /\ RootChangeMerged(msg))
       => /\ mLast'.notified
          /\ mTree' = Obj(<< <<"_removed", Bool(TRUE)>> >>)
          /\ mTree' # Null /\ Truthy(mTree')
          /\ Truthy(Prop(mTree', "_removed"))
          /\ mTree' \notin Snapshots
          /\ \A d \in Snapshots : Prop(d, "_removed") = Undef
          /\ Prop(mTree, "_removed") = Undef
    ]_vars

\* A remove without collection path was merged into the document of the
\* entity "thing": the tree is the removal sentinel.
RootRemovalWitness ==
  /\ mOpen
  /\ mLast.kind = "notify" /\ mLast.op = "remove" /\ mLast.notified
  /\ mLast.collection = <<>> /\ mLast.rootKey = "thing"
  /\ FirstKey(mTree) = "_removed"
  /\ Prop(mTree, "_removed") = Bool(TRUE)

\* C31: an error push sets the tree of the open document to the sentinel
\* that carries the error message, and changes nothing of a document that is
\* not open; a set that arrives while the tree is the sentinel replaces it
\* with the snapshot the set carries.
ErrorSentinelReplaced ==
  [][/\ \A text \in ErrorTexts :
          OnError(text) =>
            IF mOpen THEN mTree' = Obj(<< <<"_error", Str(text)>> >>)
                     ELSE UNCHANGED <<mTree, mCursor, mHasMore>>
     /\ (mLast'.op = "set" /\ mOpen /\ FirstKey(mTree) = "_error") =>
          \A msg \in Events :
            (msg.op = "set" /\ OnNotify(msg)) => mTree' = msg.data
    ]_vars

\* The snapshot of the open and every notification have been delivered to
\* the client and merged.
AllMerged ==
  /\ mOpen /\ 1 \in docs[1]
  /\ \A t \in tasks : t.kind # "open"
  /\ feed = <<>> /\ link = <<>>

\* C36: when the snapshot of the open and all notifications have been
\* delivered and merged, the tree of the client holds every change that is
\* committed: it is the document as the database has it.
NoLostUpdate == AllMerged => mTree = DocAt(store)

\* C38: every request in the outbound queue has its entry in the pending
\* table, and every request that is handed to the socket has it at that
\* moment: a call that was rejected with "disconnected" is not transmitted.
QueuedArePending ==
  /\ [](\A i \in 1..Len(queue) : queue[i].rid # 0 => queue[i].rid \in pendingCalls)
  /\ [][\A i \in (Len(wire) + 1)..Len(wire') :
          wire'[i].rid # 0 => wire'[i].rid \in pendingCalls']_vars

\* ------------------------------------------------------ claims on the runtime

Idle == stack = <<>>

\* C7: an effect cycle never loops forever: every call into the runtime
\* returns, with the result or with the depth error.
EffectCycleEnds == []<>Idle

\* C8: a disposed effect is subscribed to no signal and its body is not
\* executed again, also when dispose was called while a batch was open.
DisposedIsDead ==
  \A e \in Effs :
    effs[e].state = "disposed"
      => /\ Subscriptions(e) = {}
         /\ \A n \in 1..Len(stack) : ~(stack[n].k = "exec" /\ stack[n].e = e)

\* C9: when no call is in progress, an effect whose runs all returned is
\* subscribed to exactly the signals its last run read with get().
SubscribedToReads ==
  Idle => \A e \in Effs :
            (effs[e].state = "live" /\ ~effs[e].aborted) => Subscriptions(e) = effs[e].deps

\* No effect starts to run while a batch is open.
NotRunDuringBatch == (stack # <<>> /\ Top.k = "exec" /\ Top.pc = 1) => batchDepth = 0

\* e was subscribed to a signal when the body of the batch called from
\* outside wrote it.
Touched(e) == gh.op = "batch" /\ effs[e].state = "live" /\ gh.touched[e] >= 1

\* The call of set(v) that the top frame is about to make, with its v.
SetReached ==
  /\ AtInstr("set")
  /\ Top.prog[Top.pc].when = Always \/ Top.reg = Top.prog[Top.pc].when
WrittenSig == Top.prog[Top.pc].sig
WrittenValue == NewValue(Top.prog[Top.pc], Top.reg)

CleanupOnce == \A e \in Effs : effs[e].cleaned <= 1

\* d = computed(() => a.get()) exists and was not disposed.
ComputedLive == \E e \in Effs : effs[e].state = "live" /\ effs[e].body = Computed

\* C34: once a write from outside, or a batch from outside, has returned,
\* the value of the computed signal d is its function of the current value
\* of a, the signal it reads; and when the recomputed value is the value d
\* has, the set of the computed calls and queues no subscriber of d.
ComputedFresh ==
  /\ []((Idle /\ gh.op \in {"write", "batch"} /\ ~gh.error /\ ComputedLive)
         => sVal["d"] = sVal["a"])
  /\ [][(SetReached /\ Top.k = "exec" /\ Top.prog = Computed
           /\ WrittenValue = sVal["d"])
          => /\ stack' = Advance(stack)
             /\ pendingEffects' = pendingEffects
             /\ gh'.ran = gh.ran]_vars

\* A call of batch() is in progress, in fn or in the drain loop.
BatchActive == \E n \in 1..Len(stack) : stack[n].k = "batch"

\* C35: while batchDepth > 0 a set that changes a value only queues the
\* subscribers and no effect starts to run; the drain loop of the outermost
\* batch is left, when no error is thrown, with the pending set empty; and
\* the pending set is empty whenever no batch is in progress.
BatchDefers ==
  /\ [](~BatchActive => pendingEffects = <<>>)
  /\ [](NotRunDuringBatch)
  /\ [][/\ (SetReached /\ batchDepth > 0) => stack' = Advance(stack)
        /\ (InDrain /\ ~thrown' /\ Len(stack') < Len(stack)) => pendingEffects' = <<>>
       ]_vars

\* C40: whenever no call into the runtime is in progress, also after calls
\* in which an effect body or a batch body threw or the depth was exceeded,
\* effectDepth and batchDepth are 0, flushing is false and currentListener
\* and currentDeps are null.
TrackingRestored ==
  Idle => /\ effectDepth = 0
          /\ batchDepth = 0
          /\ flushing = FALSE
          /\ currentListener = NoListener
          /\ currentDeps = NoDeps

\* After a call in which a run of an effect threw, a write from outside has
\* returned and has run an effect.
TrackingRestoredWitness ==
  /\ Idle /\ gh.op = "write" /\ ~gh.error
  /\ \E e \in Effs : effs[e].aborted
  /\ \E e \in Effs : gh.ran[e] >= 1

====
